---- MODULE Spec2Model ----
(***************************************************************************)
(* A model of the multi-model alignment and reduction pipeline of the      *)
(* CMIP6 cookbook notebooks: the ECS notebook                              *)
(* (notebooks/example-workflows/ecs-cmip6.ipynb) and the GMST notebook     *)
(* (unnamed/part_001).                                                     *)
(*                                                                         *)
(* Floating point numbers are modelled as exact rationals <<num, den>>     *)
(* with den > 0, in lowest terms; the missing marker NaN is <<0, 0>>.      *)
(***************************************************************************)
EXTENDS Integers, Sequences, FiniteSets, TLC

\* ------------------------------------------------------------------------
\* Bounds of the model
\* ------------------------------------------------------------------------
MaxT == 1         \* the datasets given to global_mean have 1..MaxT time steps
MaxLon == 2       \* ... and 1..MaxLon longitudes
MaxCoef == 1      \* the coefficients of a field are 0..MaxCoef

\* The latitudes (degrees) a grid draws its rows from.
LatValues == {-60, 0, 60}

\* ------------------------------------------------------------------------
\* Rational arithmetic (the model of float arithmetic) and NaN
\* ------------------------------------------------------------------------
Abs(n) == IF n < 0 THEN -n ELSE n

RECURSIVE GCD(_, _)
GCD(a, b) == IF b = 0 THEN a ELSE GCD(b, a % b)

NaN == <<0, 0>>
IsNaN(x) == x = NaN

\* The rational n/d in lowest terms with a positive denominator; n/0 is NaN.
Rat(n, d) ==
    IF d = 0 THEN NaN
    ELSE LET s == IF d < 0 THEN -1 ELSE 1
             g == GCD(Abs(n), Abs(d))
         IN <<(s * n) \div g, (s * d) \div g>>

RInt(n) == <<n, 1>>
RAdd(x, y) == IF IsNaN(x) \/ IsNaN(y) THEN NaN
              ELSE Rat(x[1] * y[2] + y[1] * x[2], x[2] * y[2])
RSub(x, y) == IF IsNaN(x) \/ IsNaN(y) THEN NaN
              ELSE Rat(x[1] * y[2] - y[1] * x[2], x[2] * y[2])
RMul(x, y) == IF IsNaN(x) \/ IsNaN(y) THEN NaN
              ELSE Rat(x[1] * y[1], x[2] * y[2])
\* Float division: x/0 is not a number the model follows further (NaN).
RDiv(x, y) == IF IsNaN(x) \/ IsNaN(y) THEN NaN
              ELSE Rat(x[1] * y[2], x[2] * y[1])

\* The infinities of float arithmetic, and float division and multiplication
\* where they can arise: x/0 is an infinity, 0/0 is NaN.
Inf(sign) == <<sign, 0>>
IsInf(x) == x[2] = 0 /\ x[1] # 0
Sign(x) == IF x[1] < 0 THEN -1 ELSE IF x[1] > 0 THEN 1 ELSE 0
FDiv(x, y) ==
    IF IsNaN(x) \/ IsNaN(y) THEN NaN
    ELSE IF IsInf(x) THEN (IF IsInf(y) THEN NaN
                           ELSE Inf(Sign(x) * (IF Sign(y) < 0 THEN -1 ELSE 1)))
    ELSE IF IsInf(y) THEN RInt(0)
    ELSE IF y[1] = 0 THEN (IF x[1] = 0 THEN NaN ELSE Inf(Sign(x)))
    ELSE Rat(x[1] * y[2], x[2] * y[1])
FMul(x, y) ==
    IF IsNaN(x) \/ IsNaN(y) THEN NaN
    ELSE IF IsInf(x) \/ IsInf(y)
         THEN (IF Sign(x) * Sign(y) = 0 THEN NaN ELSE Inf(Sign(x) * Sign(y)))
    ELSE Rat(x[1] * y[1], x[2] * y[2])

\* Sum of the values of the function f over the finite set S of its domain.
RECURSIVE RSumOver(_, _)
RSumOver(f, S) ==
    IF S = {} THEN RInt(0)
    ELSE LET p == CHOOSE q \in S : TRUE
         IN RAdd(f[p], RSumOver(f, S \ {p}))

\* numpy/xarray mean with skipna: the mean of the values that are not NaN,
\* NaN when there is none.
RNanMeanOver(f, S) ==
    LET valid == {p \in S : ~IsNaN(f[p])}
    IN IF valid = {} THEN NaN
       ELSE RDiv(RSumOver(f, valid), RInt(Cardinality(valid)))

SeqIdx(s) == 1..Len(s)

\* The outcome of a call that raised the exception e; what is not yet computed.
Raised(e) == [error |-> e]
IsError(r) == "error" \in DOMAIN r
Unset == [unset |-> TRUE]

\* ------------------------------------------------------------------------
\* Datasets.  A dataset is a record
\*   dims   : dimension name -> size
\*   coords : coordinate name -> [dim, values]
\*   coef   : the coefficients that determine the (lazily read) fields
\*   data_vars : the names of the data variables
\* ------------------------------------------------------------------------
Idx(p, d) == IF d \in DOMAIN p THEN p[d] ELSE 0

\* The index tuples of an array with dimensions dims (name -> size).
RECURSIVE PointsOver(_, _)
PointsOver(dims, D) ==
    IF D = {} THEN {[d \in {} |-> 0]}
    ELSE LET d == CHOOSE e \in D : TRUE
         IN {[x \in DOMAIN p \cup {d} |-> IF x = d THEN i ELSE p[x]] :
                p \in PointsOver(dims, D \ {d}), i \in 1..dims[d]}

Points(dims) == PointsOver(dims, DOMAIN dims)

\* The index tuple that is q on the dimensions of q and p on the others.
Merge(q, p) ==
    [d \in DOMAIN q \cup DOMAIN p |-> IF d \in DOMAIN q THEN q[d] ELSE p[d]]

\* The dimension the rows of the grid lie along.
RowDim(ds) == IF "lat" \in DOMAIN ds.dims THEN "lat" ELSE "latitude"

\* The variables differ by a fixed amount (radiation fluxes, temperature).
VarBias(v) ==
    CASE v = "tas" -> 0 [] v = "rsdt" -> 7 [] v = "rsut" -> 2 [] v = "rlut" -> 3

\* The value of the data variable v of ds at index tuple p: a base value, a
\* drift and a variation in time, and a variation along rows, columns and
\* levels.
FieldAt(ds, v, p) ==
    ds.coef.c0 + VarBias(v) + ds.coef.ct * Idx(p, "time")
    + ds.coef.cs * ((Idx(p, "time") * Idx(p, "time")) % 5)
    + ds.coef.cy * Idx(p, RowDim(ds)) + ds.coef.cx * Idx(p, "lon")
    + ds.coef.cyx * Idx(p, RowDim(ds)) * Idx(p, "lon")
    + 2 * Idx(p, "plev")

\* np.cos(np.deg2rad(lat)) on the latitudes of LatValues.
CosDeg(lat) ==
    CASE lat = 0 -> Rat(1, 1)
      [] lat \in {-60, 60} -> Rat(1, 2)
      [] lat \in {-90, 90} -> Rat(0, 1)

get_lat_name_first_latitude(ds) ==
    IF "latitude" \in DOMAIN ds.coords THEN "latitude"
    ELSE IF "lat" \in DOMAIN ds.coords THEN "lat"
    ELSE "RuntimeError"

get_lat_name(ds) ==
    IF "lat" \in DOMAIN ds.coords THEN "lat"
    ELSE IF "latitude" \in DOMAIN ds.coords THEN "latitude"
    ELSE "RuntimeError"

\* weight = np.cos(np.deg2rad(lat)), as a function of the row index.
cos_weight(lat) == [i \in SeqIdx(lat.values) |-> CosDeg(lat.values[i])]

normalize_by_sum(w) ==
    LET total == RSumOver(w, DOMAIN w)
    IN [i \in DOMAIN w |-> RDiv(w[i], total)]

\* weight /= weight.mean()
normalize_weight(w) ==
    LET m == RNanMeanOver(w, DOMAIN w)
    IN [i \in DOMAIN w |-> RDiv(w[i], m)]

other_dims_horizontal(ds) == DOMAIN ds.dims \ {"time", "plev"}

\* other_dims = set(ds.dims) - {'time'}
other_dims(ds) == DOMAIN ds.dims \ {"time"}

\* (ds * weight).mean(other_dims): the reduced dataset.
global_mean(ds) ==
    IF get_lat_name(ds) = "RuntimeError" THEN Raised("RuntimeError")
    ELSE
    LET lat == ds.coords[get_lat_name(ds)]
        weight == normalize_weight(cos_weight(lat))
        kept == DOMAIN ds.dims \ other_dims(ds)
        kdims == [d \in kept |-> ds.dims[d]]
        cells == PointsOver(ds.dims, other_dims(ds))
        prod(v, q) == [p \in cells |->
                         RMul(RInt(FieldAt(ds, v, Merge(q, p))), weight[p[lat.dim]])]
    IN [dims |-> kdims,
        coords |-> [c \in {c \in DOMAIN ds.coords : ds.coords[c].dim \in kept}
                      |-> ds.coords[c]],
        data |-> [v \in ds.data_vars |-> [q \in Points(kdims) |->
                    RNanMeanOver(prod(v, q), cells)]]]

\* The foundations notebook's global_mean(field):
\*   weights = np.cos(np.deg2rad(field.lat))
\*   field.weighted(weights).mean(dim=['lat', 'lon'])
\* It needs a coordinate and dimensions named lat and lon.
weighted_global_mean(ds) ==
    IF ~("lat" \in DOMAIN ds.coords /\ {"lat", "lon"} \subseteq DOMAIN ds.dims)
    THEN Raised("AttributeError")
    ELSE
    LET weights == cos_weight(ds.coords["lat"])
        kept == DOMAIN ds.dims \ {"lat", "lon"}
        kdims == [d \in kept |-> ds.dims[d]]
        all == Points(ds.dims)
        wf(v) == [p \in all |-> RMul(RInt(FieldAt(ds, v, p)), weights[p["lat"]])]
        w == [p \in all |-> weights[p["lat"]]]
        cell(q) == {p \in all : \A d \in kept : p[d] = q[d]}
    IN [dims |-> kdims,
        coords |-> [c \in {c \in DOMAIN ds.coords : ds.coords[c].dim \in kept}
                      |-> ds.coords[c]],
        data |-> [v \in ds.data_vars |-> [q \in Points(kdims) |->
                    RDiv(RSumOver(wf(v), cell(q)), RSumOver(w, cell(q)))]]]

\* ------------------------------------------------------------------------
\* Time axes: monthly time stamps <<year, month>>
\* ------------------------------------------------------------------------
\* The time stamp k months after t0.
MonthAdd(t0, k) ==
    LET m == (t0[2] - 1) + k
    IN <<t0[1] + (m \div 12), (m % 12) + 1>>

\* A monthly time axis without gaps: n samples from t0 on.
TimeAxis(t0, n) == [i \in 1..n |-> MonthAdd(t0, i - 1)]

\* ------------------------------------------------------------------------
\* Rebase, swap_dims, drop_vars, coarsen
\* ------------------------------------------------------------------------
\* ECS:  ds.coords['year'] = ds.time.dt.year - ds.time.dt.year[0]
\* GMST: ds.coords['year'] = ds.time.dt.year
year_coord_absolute(nb, ds) ==
    LET t == ds.coords["time"].values
    IN [dim |-> "time", values |-> [i \in SeqIdx(t) |-> t[i][1]]]

year_coord(nb, ds) ==
    LET t == ds.coords["time"].values
    IN [dim |-> "time",
        values |-> [i \in SeqIdx(t) |->
                      IF nb = "ecs" THEN t[i][1] - t[1][1] ELSE t[i][1]]]

\* The dataset after ds.coords[name] = coord (an assignment in place).
assign_coord(ds, name, coord) ==
    [ds EXCEPT !.coords = [c \in DOMAIN ds.coords \cup {name} |->
                             IF c = name THEN coord ELSE ds.coords[c]]]

\* r.swap_dims({old: new}): the coordinate new becomes the dimension.
swap_dims(r, old, new) ==
    LET ndims == [d \in (DOMAIN r.dims \ {old}) \cup {new} |->
                    IF d = new THEN r.dims[old] ELSE r.dims[d]]
        back(q) == [d \in DOMAIN r.dims |-> IF d = old THEN q[new] ELSE q[d]]
    IN [dims |-> ndims,
        coords |-> [c \in DOMAIN r.coords |->
                      [dim |-> IF r.coords[c].dim = old THEN new ELSE r.coords[c].dim,
                       values |-> r.coords[c].values]],
        data |-> [v \in DOMAIN r.data |->
                    [q \in Points(ndims) |-> r.data[v][back(q)]]]]

\* r.drop_vars(name)
drop_vars(r, name) ==
    [r EXCEPT !.coords = [c \in DOMAIN r.coords \ {name} |-> r.coords[c]]]

\* coarsen(year=12)
Window == 12

coarsen_sum(f, S) == RSumOver(f, S)

\* the .mean() of one coarsening window
coarsen_reduce(f, S) == RNanMeanOver(f, S)

\* r.coarsen({dim: window}).mean(), with the defaults boundary='exact' (the
\* length must be a multiple of the window), side='left', coord_func='mean'.
coarsen_mean(r, dim, window) ==
    IF r.dims[dim] % window # 0 THEN Raised("ValueError")
    ELSE
    LET n == r.dims[dim] \div window
        ndims == [r.dims EXCEPT ![dim] = n]
        block(k) == ((k - 1) * window + 1)..(k * window)
        cvals(c) == [i \in SeqIdx(r.coords[c].values) |-> RInt(r.coords[c].values[i])]
    IN [dims |-> ndims,
        coords |-> [c \in DOMAIN r.coords |->
                      IF r.coords[c].dim = dim
                      THEN [dim |-> dim,
                            values |-> [k \in 1..n |-> coarsen_reduce(cvals(c), block(k))]]
                      ELSE r.coords[c]],
        data |-> [v \in DOMAIN r.data |-> [q \in Points(ndims) |->
                    coarsen_reduce(r.data[v],
                        {[q EXCEPT ![dim] = i] : i \in block(q[dim])})]]]

\* v[expt].pipe(global_mean).swap_dims({'time': 'year'}).drop_vars('time')
\*        .coarsen(year=12).mean()
ann_mean(ds) ==
    LET g == global_mean(ds)
    IN IF IsError(g) THEN g
       ELSE coarsen_mean(drop_vars(swap_dims(g, "time", "year"), "time"),
                         "year", Window)

\* ------------------------------------------------------------------------
\* xr.concat
\* ------------------------------------------------------------------------
RLess(x, y) == x[1] * y[2] < y[1] * x[2]

\* The elements of the finite set S of rationals in ascending order.
RECURSIVE SortSet(_)
SortSet(S) ==
    IF S = {} THEN <<>>
    ELSE LET m == CHOOSE x \in S : \A y \in S : ~RLess(y, x)
         IN <<m>> \o SortSet(S \ {m})

Range(s) == {s[i] : i \in DOMAIN s}

fill_zero == RInt(0)

\* fill_value=dtypes.NA: what a label an object does not have is filled with
fill_value == NaN

\* The index along d that the objects are aligned to.
join_index(objs, join, d) ==
    LET idx(i) == objs[i].coords[d].values
    IN CASE join = "right" -> idx(Len(objs))
         [] join = "left" -> idx(1)
         [] join = "outer" ->
              IF \A i \in SeqIdx(objs) : idx(i) = idx(1) THEN idx(1)
              ELSE SortSet(UNION {Range(idx(i)) : i \in SeqIdx(objs)})
         [] join = "inner" ->
              IF \A i \in SeqIdx(objs) : idx(i) = idx(1) THEN idx(1)
              ELSE SortSet({y \in Range(idx(1)) :
                              \A i \in SeqIdx(objs) : y \in Range(idx(i))})

\* xr.concat(objs, join=join, dim=<DataArray named dim with the labels>):
\* the objects, aligned along their year index, stacked along the new dim.
xr_concat(objs, join, dim, labels) ==
    IF Len(objs) = 0 THEN Raised("ValueError")
    ELSE
    LET first == objs[1]
        yidx == join_index(objs, join, "year")
        ndims == [d \in DOMAIN first.dims \cup {dim} |->
                    CASE d = dim -> Len(objs)
                      [] d = "year" -> Len(yidx)
                      [] OTHER -> first.dims[d]]
        at(o, v, q) ==
            LET P == {i \in SeqIdx(o.coords["year"].values) :
                        o.coords["year"].values[i] = yidx[q["year"]]}
            IN IF P = {} THEN fill_value
               ELSE o.data[v][[d \in DOMAIN o.dims |->
                                 IF d = "year" THEN CHOOSE i \in P : TRUE ELSE q[d]]]
    IN [dims |-> ndims,
        coords |-> [c \in DOMAIN first.coords \cup {dim} |->
                      CASE c = dim -> [dim |-> dim, values |-> labels]
                        [] c = "year" -> [dim |-> "year", values |-> yidx]
                        [] OTHER -> first.coords[c]],
        data |-> [v \in DOMAIN first.data |->
                    [q \in Points(ndims) |-> at(objs[q[dim]], v, q)]]]

\* ds.reset_coords(drop=True): only the index coordinates are kept.
reset_coords(r) ==
    [r EXCEPT !.coords = [c \in {c \in DOMAIN r.coords : c \in DOMAIN r.dims}
                             |-> r.coords[c]]]

\* ------------------------------------------------------------------------
\* The two notebooks
\* ------------------------------------------------------------------------
co2_option == "abrupt-2xCO2"

\* expts, in the order of the list
expts(nb) ==
    IF nb = "ecs" THEN <<"piControl", co2_option>>
    ELSE <<"historical", "ssp245", "ssp585">>

\* The experiment ids in the order groupby yields the groups (sorted).
expts_sorted(nb) ==
    IF nb = "ecs" THEN <<co2_option, "piControl">>
    ELSE <<"historical", "ssp245", "ssp585">>

variable_ids(nb) ==
    IF nb = "ecs" THEN {"tas", "rsut", "rsdt", "rlut"} ELSE {"tas"}

join_policy_outer(nb) == "outer"

join_policy_right(nb) == "right"

\* ECS: xr.concat(dsets_ann_mean, join='right', ...); GMST: join='outer'
join_policy(nb) == IF nb = "ecs" THEN "right" ELSE "outer"

default_join_inner == "inner"

\* xr.concat's join when none is given (big_ds)
default_join == "outer"

\* The models of the catalogue, in sorted order.
source_id_list == <<"CESM2", "MIROC6">>

\* ------------------------------------------------------------------------
\* State
\* ------------------------------------------------------------------------
VARIABLES
    notebook,       \* "ecs" or "gmst"
    catalog,        \* col: model index -> experiment id -> the store of the group
    dsets_,         \* the opened datasets: sequence of [source_id, expts]
    loop_k,         \* the position of the alignment loop in dsets_
    dsets_aligned,  \* sequence of [source_id, frame], in insertion order
    printed,        \* the lines printed so far
    big_ds,         \* the combined frame
    ds_mean,        \* ECS: the piControl means of tas and imbalance per model
    ds_anom_frame,  \* ECS: ds_anom, the anomalies of tas and imbalance
    pc,             \* "open", "loop", "concat", "done" or "error"
    raised,         \* the exception that ended the run
    rs_nb,      \* the notebook the resampled dataset belongs to
    rs_ds,      \* one opened dataset of the alignment loop
    rs_out,     \* its annual mean (an element of dsets_ann_mean)
    rs_pc,      \* "opened", "rebased", "done"
    gm_ds,      \* the dataset handed to global_mean
    gm_out,     \* the result of global_mean(gm_ds), or the error it raised
    gm_ref,     \* the result of the foundations notebook's global_mean
    gm_pc,      \* which of the two have been evaluated
    fit_tas,    \* the temperature anomalies handed to calc_ecs
    fit_imb,    \* the imbalance anomalies handed to calc_ecs
    fit_out,    \* what calc_ecs returned, or the error it raised
    fit_pc,     \* "ready", "done"
    plot_x,     \* calc_and_plot_ecs: x after x[~np.isnan(x)]
    plot_y,     \* calc_and_plot_ecs: y after y[~np.isnan(y)]
    plot_out,   \* what calc_and_plot_ecs drew, or the error it raised
    plot_pc,    \* "ready", "done"
    dset_dict,      \* xesmf notebook: key -> opened dataset
    ctrl_keys,      \* the sorted piControl keys
    expr_keys,      \* the sorted 1pctCO2 keys
    rg_i,           \* the position of the regridding loop in the zipped lists
    ds_regrid_dict, \* sequence of [model, ds], in insertion order
    success_count,
    model_count,
    rg_printed,     \* the lines printed by the regridding cell
    regridders,     \* the xe.Regridder objects constructed so far
    rg_pc,          \* "split", "pop1", "pop2", "loop", "summary", "done", "error"
    ds_anom,        \* ECS notebook: the yearly anomalies of one model
    ds_abrupt,      \* their selection, then with the variable 'ecs'
    ab_pc,          \* "select", "apply", "done", "error"
    uf_in,          \* ds_abrupt of all models: per model [tas, imbalance]
    uf_out,         \* ds_abrupt['ecs'], or the exception of apply_ufunc
    uf_pc,          \* "apply", "done", "error"
    ds_hist,        \* precip-freq notebook: the notebook-level variable ds_hist
    ds_ssp,         \* the notebook-level variable ds_ssp
    pf_dsets,       \* the argument dsets of precip_hist_for_expts
    pf_out,         \* what precip_hist_for_expts returned, or its exception
    pf_pc           \* "call", "done", "error"

gm_vars == <<gm_ds, gm_out, gm_ref, gm_pc>>
rs_vars == <<rs_nb, rs_ds, rs_out, rs_pc>>
pl_vars == <<notebook, catalog, dsets_, loop_k, dsets_aligned, printed, big_ds,
             ds_mean, ds_anom_frame,
             pc, raised>>
fit_vars == <<fit_tas, fit_imb, fit_out, fit_pc, plot_x, plot_y, plot_out, plot_pc>>
rg_vars == <<dset_dict, ctrl_keys, expr_keys, rg_i, ds_regrid_dict, success_count,
             model_count, rg_printed, regridders, rg_pc>>
ab_vars == <<ds_anom, ds_abrupt, ab_pc, uf_in, uf_out, uf_pc>>
pf_vars == <<ds_hist, ds_ssp, pf_dsets, pf_out, pf_pc>>
vars == <<gm_vars, rs_vars, pl_vars, fit_vars, rg_vars, ab_vars, pf_vars>>

\* The variables of the parts a specification does not exercise.
MeanIdle == gm_ds = Unset /\ gm_out = Unset /\ gm_ref = Unset /\ gm_pc = {}
AnnIdle == rs_nb = "none" /\ rs_ds = Unset /\ rs_out = Unset /\ rs_pc = "idle"
FitIdle ==
    /\ fit_tas = <<>> /\ fit_imb = <<>> /\ fit_out = Unset /\ fit_pc = "idle"
    /\ plot_x = Unset /\ plot_y = Unset /\ plot_out = Unset /\ plot_pc = "idle"
PrecipIdle ==
    /\ ds_hist = Unset /\ ds_ssp = Unset /\ pf_dsets = <<>> /\ pf_out = Unset
    /\ pf_pc = "idle"
UfuncIdle == uf_in = <<>> /\ uf_out = Unset /\ uf_pc = "idle"
AbruptIdle == ds_anom = Unset /\ ds_abrupt = Unset /\ ab_pc = "idle" /\ UfuncIdle
RegridIdle ==
    /\ dset_dict = <<>> /\ ctrl_keys = <<>> /\ expr_keys = <<>> /\ rg_i = 0
    /\ ds_regrid_dict = <<>> /\ success_count = 0 /\ model_count = 0
    /\ rg_printed = <<>> /\ regridders = <<>> /\ rg_pc = "idle"
PipelineIdle ==
    /\ notebook = "none" /\ catalog = <<>> /\ dsets_ = <<>> /\ loop_k = 0
    /\ dsets_aligned = <<>> /\ printed = <<>> /\ big_ds = Unset
    /\ ds_mean = Unset /\ ds_anom_frame = Unset
    /\ pc = "idle" /\ raised = "none"

\* ------------------------------------------------------------------------
\* Specification SpecMean: global_mean applied to one dataset
\* ------------------------------------------------------------------------
\* Strictly ascending sequences of latitudes.
LatAxes ==
    {s \in UNION {[1..n -> LatValues] : n \in 1..Cardinality(LatValues)} :
        \A i \in 1..(Len(s) - 1) : s[i] < s[i + 1]}

\* An auxiliary coordinate on the rows that is not the latitude of the row.
AuxOf(rows) == [i \in SeqIdx(rows) |-> IF rows[i] = 0 THEN 60 ELSE 0]

\* Fields that drift in time and vary in space.
Coefs ==
    [c0 : 0..MaxCoef, ct : {1}, cs : {0}, cy : 0..MaxCoef, cx : 0..MaxCoef,
     cyx : 0..MaxCoef]

\* The dataset with nt months from t0 on, rows at the latitudes rows under
\* the coordinate names of latcase, nlon longitudes and, with plev, a level
\* axis.
GridDataset(latcase, rows, t0, nt, nlon, plev, coef, data_vars) ==
    LET rowdim == IF latcase = "latitude" THEN "latitude" ELSE "lat"
        dnames == {"time", rowdim, "lon"} \cup (IF plev THEN {"plev"} ELSE {})
        cnames == {"time", "lon"}
                  \cup (CASE latcase = "lat" -> {"lat"}
                          [] latcase = "latitude" -> {"latitude"}
                          [] latcase = "both" -> {"lat", "latitude"}
                          [] latcase = "none" -> {})
                  \cup (IF plev THEN {"plev"} ELSE {})
    IN [dims |-> [d \in dnames |->
                    CASE d = "time" -> nt
                      [] d = rowdim -> Len(rows)
                      [] d = "lon" -> nlon
                      [] d = "plev" -> 2],
        coords |-> [c \in cnames |->
                    CASE c = "time" -> [dim |-> "time", values |-> TimeAxis(t0, nt)]
                      [] c = "lon" -> [dim |-> "lon", values |-> [i \in 1..nlon |-> i]]
                      [] c = "plev" -> [dim |-> "plev", values |-> <<1, 2>>]
                      [] c = rowdim -> [dim |-> rowdim, values |-> rows]
                      [] OTHER -> [dim |-> rowdim, values |-> AuxOf(rows)]],
        coef |-> coef,
        data_vars |-> data_vars]

MeanDatasets ==
    {GridDataset(latcase, rows, <<1850, 1>>, nt, nlon, plev, coef, {"tas"}) :
        latcase \in {"lat", "latitude", "both", "none"}, rows \in LatAxes,
        nt \in 1..MaxT, nlon \in 1..MaxLon, plev \in BOOLEAN, coef \in Coefs}

InitMean ==
    /\ gm_ds \in MeanDatasets
    /\ gm_out = Unset
    /\ gm_ref = Unset
    /\ gm_pc = {}
    /\ AnnIdle
    /\ PipelineIdle
    /\ FitIdle
    /\ RegridIdle
    /\ AbruptIdle
    /\ PrecipIdle

\* The ECS/GMST notebooks' global_mean(ds).
MeanCall ==
    /\ "global_mean" \notin gm_pc
    /\ gm_out' = global_mean(gm_ds)
    /\ gm_pc' = gm_pc \cup {"global_mean"}
    /\ UNCHANGED <<gm_ds, gm_ref, rs_vars, pl_vars, fit_vars, rg_vars, ab_vars, pf_vars>>

\* The foundations notebook's global_mean(field).
FoundationsCall ==
    /\ "foundations" \notin gm_pc
    /\ gm_ref' = weighted_global_mean(gm_ds)
    /\ gm_pc' = gm_pc \cup {"foundations"}
    /\ UNCHANGED <<gm_ds, gm_out, rs_vars, pl_vars, fit_vars, rg_vars, ab_vars, pf_vars>>

NextMean == MeanCall \/ FoundationsCall

SpecMean == InitMean /\ [][NextMean]_vars

\* ------------------------------------------------------------------------
\* Specification SpecAnn: the annual mean of one opened dataset
\* ------------------------------------------------------------------------
MaxMonths == 25     \* an opened dataset has 1..MaxMonths monthly samples

\* The calendar dates a run starts at.
Starts == {<<1850, 1>>, <<1851, 7>>}

\* Fields of one grid cell with a base value, a drift and a variation in time.
SeriesCoefs ==
    [c0 : 0..MaxCoef, ct : 0..MaxCoef, cs : 0..MaxCoef, cy : {0}, cx : {0},
     cyx : {0}]

\* An opened dataset of one cell on the equator.
CellDataset(t0, nt, coef, data_vars) ==
    GridDataset("lat", <<0>>, t0, nt, 1, FALSE, coef, data_vars)

InitAnn ==
    /\ rs_nb \in {"ecs", "gmst"}
    /\ rs_ds \in {CellDataset(t0, nt, coef, {"tas"}) :
                    t0 \in Starts, nt \in 1..MaxMonths, coef \in SeriesCoefs}
    /\ rs_out = Unset
    /\ rs_pc = "opened"
    /\ MeanIdle
    /\ PipelineIdle
    /\ FitIdle
    /\ RegridIdle
    /\ AbruptIdle
    /\ PrecipIdle

\* for ds in expt_dsets: ds.coords['year'] = ...
AnnRebase ==
    /\ rs_pc = "opened"
    /\ rs_ds' = assign_coord(rs_ds, "year", year_coord(rs_nb, rs_ds))
    /\ rs_pc' = "rebased"
    /\ UNCHANGED <<rs_nb, rs_out, gm_vars, pl_vars, fit_vars, rg_vars, ab_vars, pf_vars>>

\* one element of dsets_ann_mean
AnnMean ==
    /\ rs_pc = "rebased"
    /\ rs_out' = ann_mean(rs_ds)
    /\ rs_pc' = "done"
    /\ UNCHANGED <<rs_nb, rs_ds, gm_vars, pl_vars, fit_vars, rg_vars, ab_vars, pf_vars>>

NextAnn == AnnRebase \/ AnnMean

SpecAnn == InitAnn /\ [][NextAnn]_vars

\* ------------------------------------------------------------------------
\* Specification Spec: the pipeline of the ECS and of the GMST notebook
\* ------------------------------------------------------------------------
MaxYears == 2       \* a run covers 1..MaxYears years

AbsentStore == [kind |-> "absent"]
ConflictStore == [kind |-> "conflict"]
OkStore(t0, nt) == [kind |-> "ok", t0 |-> t0, nt |-> nt]
NoLatStore(t0, nt) == [kind |-> "nolat", t0 |-> t0, nt |-> nt]
DuplicateStore(t0, nt) == [kind |-> "duplicate", t0 |-> t0, nt |-> nt]

\* What the catalogue can hold for the group (model, experiment e): no
\* record; (ECS) per-variable stores whose coordinates conflict; a run of
\* whole years from January on; (ECS) a run with one month beyond a whole
\* year, a run of one year from July on.
\* The historical runs of the GMST notebook start in 2014, its scenario
\* runs in 2015.  A forcing run (ECS) or a historical run (GMST) can be a
\* one-year run whose dataset has no 'lat' and no 'latitude' coordinate.
\* A piControl run (ECS) or an ssp245 run (GMST) can be a one-year run with
\* two catalogue records of the same variable, pointing to equal copies.
Stores(nb, e) ==
    IF nb = "ecs"
    THEN {AbsentStore, ConflictStore, OkStore(<<1850, 1>>, Window + 1),
          OkStore(<<1851, 7>>, Window)}
         \cup {OkStore(<<1850, 1>>, Window * y) : y \in 1..MaxYears}
         \cup (IF e = co2_option THEN {NoLatStore(<<1850, 1>>, Window)}
               ELSE {DuplicateStore(<<1850, 1>>, Window)})
    ELSE {AbsentStore}
         \cup {OkStore(<<(IF e = "historical" THEN 2014 ELSE 2015), 1>>, Window * y) :
                 y \in 1..MaxYears}
         \cup (IF e = "historical" THEN {NoLatStore(<<2014, 1>>, Window)} ELSE {})
         \cup (IF e = "ssp245" THEN {DuplicateStore(<<2015, 1>>, Window)} ELSE {})

\* The groups of one model: a store for every experiment of the query.
CatalogRows(nb) ==
    {row \in [Range(expts(nb)) -> UNION {Stores(nb, e) : e \in Range(expts(nb))}] :
        \A e \in DOMAIN row : row[e] \in Stores(nb, e)}

\* The position of x in the sequence s.
IndexOf(s, x) == CHOOSE i \in SeqIdx(s) : s[i] = x

None == [none |-> TRUE]
IsNone(d) == "none" \in DOMAIN d

\* ECS open_dsets(df) / GMST open_dset(df) on the group (model i, e).
\* ECS merges all the stores of the group (equal copies merge, others are
\* the conflict case); GMST asserts len(df) == 1.
open_dsets(nb, i, e, st) ==
    IF st.kind = "conflict" THEN None
    ELSE IF st.kind = "duplicate" /\ nb = "gmst" THEN Raised("AssertionError")
    ELSE GridDataset(IF st.kind = "nolat" THEN "none" ELSE "lat", <<0>>,
             st.t0, st.nt, 1, FALSE,
             [c0 |-> 10 * i + 3 * IndexOf(expts_sorted(nb), e), ct |-> 1,
              cs |-> 1, cy |-> 0, cx |-> 0, cyx |-> 0],
             variable_ids(nb))

\* col.search(require_all_on=["source_id"], **query): the models of the
\* catalogue that have records for every experiment of the query.
col_search(nb, cat) ==
    {i \in DOMAIN cat : \A e \in Range(expts(nb)) : cat[i][e].kind # "absent"}

\* for group, df in col_subset.df.groupby(by=['source_id', 'experiment_id']):
\*     dsets[group[0]][group[1]] = open_delayed(df)
\* dsets_ = dask.compute(dict(dsets))[0]
opened(nb, cat) ==
    LET present(i) == SelectSeq(expts_sorted(nb), LAMBDA e : cat[i][e].kind # "absent")
        entry(i) == [source_id |-> source_id_list[i],
                     expts |-> [j \in SeqIdx(present(i)) |->
                                  [experiment_id |-> present(i)[j],
                                   ds |-> open_dsets(nb, i, present(i)[j],
                                                     cat[i][present(i)[j]])]]]
        RECURSIVE build(_)
        build(i) == IF i > Len(source_id_list) THEN <<>>
                    ELSE (IF i \in col_search(nb, cat) THEN <<entry(i)>> ELSE <<>>)
                         \o build(i + 1)
    IN build(1)

Init ==
    /\ notebook \in {"ecs", "gmst"}
    /\ catalog \in [SeqIdx(source_id_list) -> CatalogRows(notebook)]
    /\ dsets_ = <<>>
    /\ loop_k = 0
    /\ dsets_aligned = <<>>
    /\ printed = <<>>
    /\ big_ds = Unset
    /\ ds_mean = Unset /\ ds_anom_frame = Unset
    /\ pc = "open"
    /\ raised = "none"
    /\ MeanIdle
    /\ AnnIdle
    /\ FitIdle
    /\ RegridIdle
    /\ AbruptIdle
    /\ PrecipIdle

\* The orders in which the tasks of one dask.compute call can complete.
Orders == {"submitted", "reversed"}

Reverse(s) == [i \in SeqIdx(s) |-> s[Len(s) + 1 - i]]

\* The results of the tasks in the order of their completion.
as_completed(tasks, order) == IF order = "reversed" THEN Reverse(tasks) ELSE tasks

dask_compute_as_completed(tasks, order) == as_completed(tasks, order)

\* dask.compute(mapping)[0]: the mapping with the keys of the submitted
\* one, in its order, each result under the key of its task.
dask_compute(tasks, order) ==
    LET done == as_completed(tasks, order)
    IN [i \in SeqIdx(tasks) |->
          done[CHOOSE j \in SeqIdx(done) : done[j].source_id = tasks[i].source_id]]

\* The same for the inner mapping experiment_id -> delayed dataset.
dask_compute_expts(tasks, order) ==
    LET done == as_completed(tasks, order)
    IN [i \in SeqIdx(tasks) |->
          done[CHOOSE j \in SeqIdx(done) :
                  done[j].experiment_id = tasks[i].experiment_id]]

Open ==
    /\ pc = "open"
    /\ \E dsets \in {opened(notebook, catalog)} :
          IF \E i \in SeqIdx(dsets) : \E j \in SeqIdx(dsets[i].expts) :
                IsError(dsets[i].expts[j].ds)
          THEN /\ pc' = "error"
               /\ raised' = "AssertionError"
               /\ UNCHANGED dsets_
          ELSE /\ \E mo \in Orders, eo \in Orders :
                     dsets_' = dask_compute(
                                   [i \in SeqIdx(dsets) |->
                                      [dsets[i] EXCEPT
                                          !.expts = dask_compute_expts(@, eo)]],
                                   mo)
               /\ pc' = "loop"
               /\ UNCHANGED raised
    /\ loop_k' = 1
    /\ UNCHANGED <<ds_mean, ds_anom_frame, notebook, catalog, dsets_aligned, printed, big_ds,
                   gm_vars, rs_vars, fit_vars, rg_vars, ab_vars, pf_vars>>

\* v[expt]: the dataset under the key expt, or KeyError
lookup(v, expt) ==
    LET P == {j \in SeqIdx(v) : v[j].experiment_id = expt}
    IN IF P = {} THEN Raised("KeyError") ELSE v[CHOOSE j \in P : TRUE].ds

\* The first exception the list comprehension runs into, if any.
first_error(results) ==
    LET E == {j \in SeqIdx(results) : IsError(results[j])}
    IN IF E = {} THEN "none"
       ELSE results[CHOOSE j \in E : \A h \in E : j <= h].error

\* print(f"Missing experiment for {k}")
missing_report_unnamed(k) == [text |-> "Missing experiment for", model |-> ""]

missing_report(k) == [text |-> "Missing experiment for", model |-> k]

\* The body of the alignment loop for the entry (k, v) of dsets_: the entry
\* after the year coordinates are assigned, and the outcome: the model is
\* skipped, an exception is raised, or a frame is added.
loop_body(nb, entry) ==
    LET v == entry.expts
        rebased == [j \in SeqIdx(v) |->
                      [v[j] EXCEPT !.ds = assign_coord(v[j].ds, "year",
                                              year_coord(nb, v[j].ds))]]
        found == [j \in SeqIdx(expts(nb)) |-> lookup(rebased, expts(nb)[j])]
        dsets_ann_mean == [j \in SeqIdx(found) |->
                             IF IsError(found[j]) THEN found[j]
                             ELSE ann_mean(found[j])]
        err == first_error(dsets_ann_mean)
    IN IF \E j \in SeqIdx(v) : IsNone(v[j].ds)
       THEN [outcome |-> "skipped", expts |-> v]
       ELSE IF err # "none"
       THEN [outcome |-> "raised", expts |-> rebased, error |-> err]
       ELSE [outcome |-> "aligned", expts |-> rebased,
             frame |-> xr_concat(dsets_ann_mean, join_policy(nb),
                                 "experiment_id", expts(nb))]

\* One iteration of: for k, v in tqdm(dsets_.items()):
LoopStep ==
    /\ pc = "loop"
    /\ loop_k <= Len(dsets_)
    /\ \E r \in {loop_body(notebook, dsets_[loop_k])} :
          /\ dsets_' = [dsets_ EXCEPT ![loop_k].expts = r.expts]
          /\ CASE r.outcome = "skipped" ->
                    /\ printed' = Append(printed,
                                         missing_report(dsets_[loop_k].source_id))
                    /\ loop_k' = loop_k + 1
                    /\ UNCHANGED <<dsets_aligned, pc, raised>>
               [] r.outcome = "raised" ->
                    /\ pc' = "error"
                    /\ raised' = r.error
                    /\ UNCHANGED <<dsets_aligned, loop_k, printed>>
               [] r.outcome = "aligned" ->
                    /\ dsets_aligned' = Append(dsets_aligned,
                            [source_id |-> dsets_[loop_k].source_id,
                             frame |-> r.frame])
                    /\ loop_k' = loop_k + 1
                    /\ UNCHANGED <<pc, raised, printed>>
    /\ UNCHANGED <<ds_mean, ds_anom_frame, notebook, catalog, big_ds, gm_vars, rs_vars, fit_vars, rg_vars, ab_vars, pf_vars>>

\* The loop is over; dsets_aligned_ = dask.compute(dsets_aligned)[0]
LoopEnd ==
    /\ pc = "loop"
    /\ loop_k > Len(dsets_)
    /\ \E mo \in Orders : dsets_aligned' = dask_compute(dsets_aligned, mo)
    /\ pc' = "concat"
    /\ UNCHANGED <<ds_mean, ds_anom_frame, notebook, catalog, dsets_, loop_k, printed, big_ds, raised,
                   gm_vars, rs_vars, fit_vars, rg_vars, ab_vars, pf_vars>>

source_ids_of_opened(aligned, all) == [i \in SeqIdx(all) |-> all[i].source_id]

\* source_ids = list(dsets_aligned_.keys())
source_ids_of(aligned, all) == [i \in SeqIdx(aligned) |-> aligned[i].source_id]

\* big_ds = xr.concat([ds.reset_coords(drop=True)
\*                     for ds in dsets_aligned_.values()], dim=source_da)
Concat ==
    /\ pc = "concat"
    /\ \E r \in {xr_concat([i \in SeqIdx(dsets_aligned) |->
                               reset_coords(dsets_aligned[i].frame)],
                           default_join, "source_id",
                           source_ids_of(dsets_aligned, dsets_))} :
          /\ big_ds' = r
          /\ IF IsError(r) THEN pc' = "error" /\ raised' = r.error
             ELSE pc' = "done" /\ UNCHANGED raised
    /\ UNCHANGED <<ds_mean, ds_anom_frame, notebook, catalog, dsets_, loop_k, dsets_aligned, printed,
                   gm_vars, rs_vars, fit_vars, rg_vars, ab_vars, pf_vars>>

with_imbalance_filled(ds) ==
    [ds EXCEPT !.data =
        [v \in DOMAIN ds.data \cup {"imbalance"} |->
            IF v = "imbalance"
            THEN [q \in Points(ds.dims) |->
                    IF IsNaN(ds.data["rsdt"][q]) THEN RInt(0)
                    ELSE RSub(RSub(ds.data["rsdt"][q], ds.data["rsut"][q]),
                              ds.data["rlut"][q])]
            ELSE ds.data[v]]]

\* big_ds['imbalance'] = big_ds['rsdt'] - big_ds['rsut'] - big_ds['rlut']
with_imbalance(ds) ==
    [ds EXCEPT !.data =
        [v \in DOMAIN ds.data \cup {"imbalance"} |->
            IF v = "imbalance"
            THEN [q \in Points(ds.dims) |->
                    RSub(RSub(ds.data["rsdt"][q], ds.data["rsut"][q]),
                         ds.data["rlut"][q])]
            ELSE ds.data[v]]]

baseline_experiment_forcing == co2_option

\* .sel(experiment_id='piControl')
baseline_experiment == "piControl"

\* ds[vs].sel(experiment_id=e).mean(dim='year'): per model, the mean over
\* the years that are not NaN.
sel_mean_year(ds, vs, e) ==
    LET kdims == [d \in {"source_id"} |-> ds.dims["source_id"]]
        ie == IndexOf(ds.coords["experiment_id"].values, e)
        along(v, q) == [y \in 1..ds.dims["year"] |->
                          ds.data[v][[source_id |-> q["source_id"],
                                      experiment_id |-> ie, year |-> y]]]
    IN [dims |-> kdims,
        coords |-> [c \in {"source_id"} |-> ds.coords["source_id"]],
        data |-> [v \in vs |-> [q \in Points(kdims) |->
                    RNanMeanOver(along(v, q), 1..ds.dims["year"])]]]

\* ds[vs] - mean: the mean is broadcast along experiment_id and year.
minus_broadcast(ds, vs, mean) ==
    [dims |-> ds.dims,
     coords |-> ds.coords,
     data |-> [v \in vs |-> [q \in Points(ds.dims) |->
                 RSub(ds.data[v][q],
                      mean.data[v][[d \in {"source_id"} |-> q["source_id"]]])]]]

\* The cell of the derived variables (ECS): imbalance, ds_mean, ds_anom.
Derive ==
    /\ pc = "done"
    /\ notebook = "ecs"
    /\ \E b \in {with_imbalance(big_ds)} :
       \E mean \in {sel_mean_year(b, {"tas", "imbalance"}, baseline_experiment)} :
          /\ big_ds' = b
          /\ ds_mean' = mean
          /\ ds_anom_frame' = minus_broadcast(b, {"tas", "imbalance"}, mean)
    /\ pc' = "derived"
    /\ UNCHANGED <<notebook, catalog, dsets_, loop_k, dsets_aligned, printed, raised,
                   gm_vars, rs_vars, fit_vars, rg_vars, ab_vars, pf_vars>>

Next == Open \/ LoopStep \/ LoopEnd \/ Concat \/ Derive

Spec == Init /\ [][Next]_vars

\* ------------------------------------------------------------------------
\* The sensitivity estimate (ECS notebook): calc_ecs on the paired yearly
\* anomalies of one model
\* ------------------------------------------------------------------------
MaxPoints == 3    \* the sequences handed to calc_ecs have 0..MaxPoints years

TasValues == {NaN, RInt(0), RInt(1), RInt(2)}
ImbValues == {NaN, RInt(4), RInt(6), RInt(8)}

\* What the least-squares solver does with an input that is not finite:
\* depending on the LAPACK build it raises or returns NaN coefficients.
lstsq_not_finite == {Raised("LinAlgError"), [a |-> NaN, b |-> NaN]}

\* The sum of x[lo..hi], by halves.
RECURSIVE RSumSeq(_, _, _)
RSumSeq(x, lo, hi) ==
    IF lo > hi THEN RInt(0)
    ELSE IF lo = hi THEN x[lo]
    ELSE LET mid == (lo + hi) \div 2
         IN RAdd(RSumSeq(x, lo, mid), RSumSeq(x, mid + 1, hi))

\* np.polyfit(x, y, 1): the outcomes of the least-squares line fit.  With at
\* least two distinct x the coefficients are those of the normal equations;
\* with all x equal to c the system has rank 1 and the solver returns the
\* minimum-norm solution of the column-scaled system, a = mean(y)/(2c),
\* b = mean(y)/2 (the scaling divides the x column by 0 when c = 0).
polyfit(x, y) ==
    IF Len(x) = 0 \/ Len(x) # Len(y) THEN {Raised("TypeError")}
    ELSE IF \E i \in SeqIdx(x) : IsNaN(x[i]) \/ IsNaN(y[i]) THEN lstsq_not_finite
    ELSE LET n == RInt(Len(x))
             sx == RSumSeq(x, 1, Len(x))
             sy == RSumSeq(y, 1, Len(y))
             sxx == RSumSeq([i \in SeqIdx(x) |-> RMul(x[i], x[i])], 1, Len(x))
             sxy == RSumSeq([i \in SeqIdx(x) |-> RMul(x[i], y[i])], 1, Len(x))
             det == RSub(RMul(n, sxx), RMul(sx, sx))
         IN IF det # RInt(0)
            THEN {[a |-> RDiv(RSub(RMul(n, sxy), RMul(sx, sy)), det),
                   b |-> RDiv(RSub(RMul(sy, sxx), RMul(sx, sxy)), det)]}
            ELSE IF x[1] = RInt(0) THEN lstsq_not_finite
            ELSE {[a |-> RDiv(RDiv(sy, n), RMul(RInt(2), x[1])),
                   b |-> RDiv(RDiv(sy, n), RInt(2))]}

\* The factor of b/a: -1.0 for 2xCO2, -0.5 if using 4xCO2.
ecs_scale_4xCO2 == Rat(-1, 2)
ecs_scale == Rat(-1, 1)

\* xr.DataArray(ecs): the 0-dimensional array holding ecs.
DataArray(v) == [data |-> v]

\* calc_ecs(tas, imb): the outcomes of the sensitivity estimate.
calc_ecs(tas, imb) ==
    {IF IsError(r) THEN r ELSE DataArray(FMul(ecs_scale, FDiv(r.b, r.a))) :
        r \in polyfit(tas, imb)}

\* apply_ufunc hands calc_ecs the tas and imbalance of one model along the
\* same year dimension.
InitFit ==
    /\ \E n \in 0..MaxPoints :
          /\ fit_tas \in [1..n -> TasValues]
          /\ fit_imb \in [1..n -> ImbValues]
    /\ fit_out = Unset
    /\ fit_pc = "ready"
    /\ plot_x = Unset /\ plot_y = Unset /\ plot_out = Unset
    /\ plot_pc = "ready"
    /\ MeanIdle
    /\ AnnIdle
    /\ PipelineIdle
    /\ RegridIdle
    /\ AbruptIdle
    /\ PrecipIdle

FitCall ==
    /\ fit_pc = "ready"
    /\ \E r \in calc_ecs(fit_tas, fit_imb) : fit_out' = r
    /\ fit_pc' = "done"
    /\ UNCHANGED <<fit_tas, fit_imb, plot_x, plot_y, plot_out, plot_pc,
                   gm_vars, rs_vars, pl_vars, rg_vars, ab_vars, pf_vars>>

\* x[~np.isnan(x)]: the values of x that are not NaN, in order.
drop_nan(x) == SelectSeq(x, LAMBDA v : ~IsNaN(v))

\* f'{ecs:3.2f}': ecs rounded to two decimals.  A value halfway between two
\* neighbours is rounded to the even one when it is a binary fraction; when
\* it is not, the float that stands for it lies on either side.
format_2f(x) ==
    IF IsNaN(x) \/ IsInf(x) THEN {x}
    ELSE LET n == x[1] * 100
             q == n \div x[2]
             r == n - q * x[2]
         IN IF 2 * r < x[2] THEN {Rat(q, 100)}
            ELSE IF 2 * r > x[2] THEN {Rat(q + 1, 100)}
            ELSE IF x[2] \in {1, 2, 4, 8}
                 THEN {Rat(IF q % 2 = 0 THEN q ELSE q + 1, 100)}
                 ELSE {Rat(q, 100), Rat(q + 1, 100)}

\* calc_and_plot_ecs(x, y): the sequences it fits and what it draws, the
\* line np.polyval([a, b], [0, 10]) and the text 'ECS = ...'.
calc_and_plot_ecs(x, y) ==
    LET xs == drop_nan(x)
        ys == drop_nan(y)
    IN UNION {IF IsError(r) THEN {[x |-> xs, y |-> ys, out |-> r]}
              ELSE {[x |-> xs, y |-> ys,
                     out |-> [line |-> <<RAdd(RMul(r.a, RInt(0)), r.b),
                                         RAdd(RMul(r.a, RInt(10)), r.b)>>,
                              text |-> t]] :
                       t \in format_2f(FDiv(FMul(ecs_scale, r.b), r.a))} :
                 r \in polyfit(xs, ys)}

\* fg.map(calc_and_plot_ecs, 'tas', 'imbalance') on the facet of one model.
PlotCall ==
    /\ plot_pc = "ready"
    /\ \E r \in calc_and_plot_ecs(fit_tas, fit_imb) :
          /\ plot_x' = r.x
          /\ plot_y' = r.y
          /\ plot_out' = r.out
    /\ plot_pc' = "done"
    /\ UNCHANGED <<fit_tas, fit_imb, fit_out, fit_pc, gm_vars, rs_vars, pl_vars, rg_vars, ab_vars, pf_vars>>

NextFit == FitCall \/ PlotCall

SpecFit == InitFit /\ [][NextFit]_vars

\* ------------------------------------------------------------------------
\* The regridding notebook (notebooks/example-workflows/xesmf-ohu.ipynb):
\* the key lists, get_tcr, regrid and the regridding loop
\* ------------------------------------------------------------------------
MaxModels == 4    \* the catalogue holds 0..MaxModels models

\* The models, in the alphabetical order of their keys.
RegridModels == <<"ACCESS", "CESM2", "GFDL", "MIROC6", "NorESM", "UKESM">>

\* A key of dset_dict, 'CMIP.<institution>.<model>.<experiment>.Omon.gn', as
\* the sequence of its dot-separated fields.
KeyOf(model, experiment) == <<"CMIP", "I", model, experiment, "Omon", "gn">>

\* The key of the same model and experiment on another grid label.
KeyOnGrid(model, experiment, grid) == [KeyOf(model, experiment) EXCEPT ![6] = grid]

\* The keys the last model of the catalogue can have besides its two 'gn'
\* keys: none, both experiments on the grid 'gr' as well, or the 1pctCO2
\* experiment only.
ExtraKeys(model) ==
    {{},
     {KeyOnGrid(model, "piControl", "gr"), KeyOnGrid(model, "1pctCO2", "gr")},
     {KeyOnGrid(model, "1pctCO2", "gr")}}

\* ctrl_key.split('.')[2]
model_of(key) == key[3]

\* What the two datasets of a model can be: the grid shape, the number of
\* monthly samples (a dataset with one sample loses its time dimension in
\* squeeze()), whether xESMF accepts its coordinates, whether it holds hfds.
GridConfigs ==
    {[shape |-> <<2, 2>>, nt |-> 1200, coords_ok |-> TRUE, has_hfds |-> TRUE],
     [shape |-> <<2, 3>>, nt |-> 1200, coords_ok |-> TRUE, has_hfds |-> TRUE],
     [shape |-> <<2, 2>>, nt |-> 720, coords_ok |-> TRUE, has_hfds |-> TRUE],
     [shape |-> <<2, 2>>, nt |-> 1, coords_ok |-> TRUE, has_hfds |-> TRUE],
     [shape |-> <<2, 2>>, nt |-> 1200, coords_ok |-> FALSE, has_hfds |-> TRUE],
     [shape |-> <<2, 3>>, nt |-> 1200, coords_ok |-> TRUE, has_hfds |-> FALSE]}

\* The dataset of model i and experiment e: a field uniform in space,
\* c0 + ct*t at the monthly sample t (from 0).
OceanDataset(i, e, cfg) ==
    [shape |-> cfg.shape, nt |-> cfg.nt, coords_ok |-> cfg.coords_ok,
     data_vars |-> IF cfg.has_hfds THEN {"hfds"} ELSE {"hfds_alt"},
     c0 |-> IF e = "piControl" THEN i ELSE 2 * i + 1,
     ct |-> IF e = "piControl" THEN 0 ELSE 1]

\* ds.isel(time=slice(start, stop)): the sample positions (from 0) selected,
\* start included, stop excluded, cut at the length of the dataset.
isel_time(ds, start, stop) == {t \in start..(stop - 1) : t < ds.nt}

\* ds.isel(time=slice(12*59, 12*80)).mean(dim='time'): the mean of the
\* samples 708..959 the dataset has, NaN when it has none.
window_mean(ds) ==
    LET lo == 12 * 59
        hi == IF ds.nt < 12 * 80 THEN ds.nt ELSE 12 * 80
        n == hi - lo
    IN IF n <= 0 THEN NaN
       ELSE RAdd(RInt(ds.c0), RMul(RInt(ds.ct), Rat((lo + hi - 1) * n, 2 * n)))

\* get_tcr(ctrl_key, expr_key)
get_tcr(dict, ctrl_key, expr_key) ==
    LET ds_1pct == dict[expr_key]
        ds_piCl == dict[ctrl_key]
    IN IF ds_1pct.nt = 1 \/ ds_piCl.nt = 1 THEN Raised("ValueError")
       ELSE [shape |-> ds_1pct.shape,
             coords_ok |-> ds_1pct.coords_ok,
             data_vars |-> ds_1pct.data_vars \cap ds_piCl.data_vars,
             value |-> RSub(window_mean(ds_1pct), window_mean(ds_piCl))]

\* The 1x1 degree output grid rg_ds.
rg_shape == <<180, 360>>

\* xe.Regridder(ds_in, regrid_to, method=method, periodic=True,
\*              ignore_degenerate=True)
Regridder(ds_in, regrid_to, method) ==
    IF ~ds_in.coords_ok THEN Raised("ValueError")
    ELSE [shape_in |-> ds_in.shape, shape_out |-> regrid_to, method |-> method]

\* regrid(ds_in, regrid_to, method): the regridders it constructs and the
\* regridded dataset, or the exception.
regrid(ds_in, regrid_to, method) ==
    LET regridder == Regridder(ds_in, regrid_to, method)
    IN IF IsError(regridder) THEN [built |-> <<>>, out |-> regridder]
       ELSE [built |-> <<regridder>>,
             out |-> [shape |-> regridder.shape_out, data_vars |-> ds_in.data_vars,
                      value |-> ds_in.value]]

\* The keys of k1 sort before those of k2.
KeyLess(k1, k2) ==
    \/ IndexOf(RegridModels, k1[3]) < IndexOf(RegridModels, k2[3])
    \/ k1[3] = k2[3] /\ k1[4] = "1pctCO2" /\ k2[4] = "piControl"
    \/ k1[3] = k2[3] /\ k1[4] = k2[4] /\ k1[6] = "gn" /\ k2[6] = "gr"

RECURSIVE sorted(_)
sorted(S) ==
    IF S = {} THEN <<>>
    ELSE LET m == CHOOSE x \in S : \A y \in S \ {x} : KeyLess(x, y)
         IN <<m>> \o sorted(S \ {m})

\* sorted_split_list(a_list): the sorted piControl keys and the sorted
\* 1pctCO2 keys.
sorted_split_list_reversed(a_list) ==
    [c_list |-> sorted({k \in a_list : k[4] = "piControl"}),
     e_list |-> Reverse(sorted({k \in a_list : k[4] = "1pctCO2"}))]

sorted_split_list(a_list) ==
    [c_list |-> sorted({k \in a_list : k[4] = "piControl"}),
     e_list |-> sorted({k \in a_list : k[4] # "piControl" /\ k[4] = "1pctCO2"})]

\* a_list.pop(i) for the Python index i: the element removed and the list
\* without it, or IndexError.
pop(a_list, i) ==
    LET j == IF i < 0 THEN Len(a_list) + i + 1 ELSE i + 1
    IN IF j < 1 \/ j > Len(a_list) THEN Raised("IndexError")
       ELSE [item |-> a_list[j],
             list |-> [h \in 1..(Len(a_list) - 1) |->
                         IF h < j THEN a_list[h] ELSE a_list[h + 1]]]

zip_first(a, b) == IF Len(a) = 0 \/ Len(b) = 0 THEN <<>> ELSE <<<<a[1], b[1]>>>>

\* zip(ctrl_keys, expr_keys)
zip(a, b) ==
    [h \in 1..(IF Len(a) < Len(b) THEN Len(a) ELSE Len(b)) |-> <<a[h], b[h]>>]

dict_append(d, key, value) == Append(d, [model |-> key, ds |-> value])

\* ds_regrid_dict[model] = ds: a new key is added last, an existing key
\* keeps its position.
dict_set(d, key, value) ==
    IF \E h \in SeqIdx(d) : d[h].model = key
    THEN [h \in SeqIdx(d) |-> IF d[h].model = key THEN [model |-> key, ds |-> value]
                                ELSE d[h]]
    ELSE Append(d, [model |-> key, ds |-> value])

InitRegrid ==
    /\ \E n \in 0..MaxModels : \E cfg \in [1..n -> GridConfigs] :
       \E extra \in (IF n = 0 THEN {{}} ELSE ExtraKeys(RegridModels[n])) :
          dset_dict = [k \in {KeyOf(RegridModels[i], e) :
                                 i \in 1..n, e \in {"piControl", "1pctCO2"}}
                              \cup extra |->
                         OceanDataset(IndexOf(RegridModels, k[3]), k[4],
                                      cfg[IndexOf(RegridModels, k[3])])]
    /\ ctrl_keys = <<>> /\ expr_keys = <<>> /\ rg_i = 0
    /\ ds_regrid_dict = <<>> /\ success_count = 0 /\ model_count = 0
    /\ rg_printed = <<>> /\ regridders = <<>>
    /\ rg_pc = "split"
    /\ MeanIdle
    /\ AnnIdle
    /\ PipelineIdle
    /\ FitIdle
    /\ AbruptIdle
    /\ PrecipIdle

\* ctrl_keys, expr_keys = sorted_split_list(list(dset_dict.keys()))
SplitKeys ==
    /\ rg_pc = "split"
    /\ ctrl_keys' = sorted_split_list(DOMAIN dset_dict).c_list
    /\ expr_keys' = sorted_split_list(DOMAIN dset_dict).e_list
    /\ rg_pc' = "pop1"
    /\ UNCHANGED <<dset_dict, rg_i, ds_regrid_dict, success_count, model_count,
                   rg_printed, regridders, gm_vars, rs_vars, pl_vars, fit_vars, ab_vars, pf_vars>>

\* The cell  ctrl_keys.pop(i); expr_keys.pop(i)
PopCell(i, next) ==
    IF IsError(pop(ctrl_keys, i))
    THEN rg_pc' = "error" /\ UNCHANGED <<ctrl_keys, expr_keys>>
    ELSE /\ ctrl_keys' = pop(ctrl_keys, i).list
         /\ IF IsError(pop(expr_keys, i))
            THEN rg_pc' = "error" /\ UNCHANGED expr_keys
            ELSE rg_pc' = next /\ expr_keys' = pop(expr_keys, i).list

\* ctrl_keys.pop(-3); expr_keys.pop(-3)
PopThirdLast ==
    /\ rg_pc = "pop1"
    /\ PopCell(-3, "pop2")
    /\ UNCHANGED <<dset_dict, rg_i, ds_regrid_dict, success_count, model_count,
                   rg_printed, regridders, gm_vars, rs_vars, pl_vars, fit_vars, ab_vars, pf_vars>>

\* ctrl_keys.pop(1); expr_keys.pop(1); then the regridding cell starts
PopSecond ==
    /\ rg_pc = "pop2"
    /\ PopCell(1, "loop")
    /\ rg_i' = 1
    /\ UNCHANGED <<dset_dict, ds_regrid_dict, success_count, model_count,
                   rg_printed, regridders, gm_vars, rs_vars, pl_vars, fit_vars, ab_vars, pf_vars>>

\* The try block of one iteration: get_tcr, then regrid(...).hfds.
try_regrid(dict, ctrl_key, expr_key) ==
    LET ds_tcr == get_tcr(dict, ctrl_key, expr_key)
        r == regrid(ds_tcr, rg_shape, "nearest_s2d")
    IN IF IsError(ds_tcr) THEN [built |-> <<>>, out |-> ds_tcr]
       ELSE IF IsError(r.out) THEN r
       ELSE IF "hfds" \notin r.out.data_vars
            THEN [built |-> r.built, out |-> Raised("AttributeError")]
       ELSE [built |-> r.built,
             out |-> [shape |-> r.out.shape, name |-> "hfds", value |-> r.out.value]]

\* One iteration of: for ctrl_key, expr_key in zip(ctrl_keys, expr_keys)
RegridStep ==
    /\ rg_pc = "loop"
    /\ rg_i <= Len(zip(ctrl_keys, expr_keys))
    /\ LET ctrl_key == zip(ctrl_keys, expr_keys)[rg_i][1]
           expr_key == zip(ctrl_keys, expr_keys)[rg_i][2]
           model == model_of(ctrl_key)
       IN \E r \in {try_regrid(dset_dict, ctrl_key, expr_key)} :
             /\ regridders' = regridders \o r.built
             /\ IF IsError(r.out)
                THEN /\ rg_printed' = Append(rg_printed,
                                             [text |-> "Failed to regrid",
                                              model |-> model, error |-> r.out.error])
                     /\ UNCHANGED <<ds_regrid_dict, success_count>>
                ELSE /\ ds_regrid_dict' = dict_set(ds_regrid_dict, model, r.out)
                     /\ rg_printed' = Append(rg_printed,
                                             [text |-> "regridded and added to dictionary",
                                              model |-> model])
                     /\ success_count' = success_count + 1
    /\ model_count' = model_count + 1
    /\ rg_i' = rg_i + 1
    /\ UNCHANGED <<dset_dict, ctrl_keys, expr_keys, rg_pc,
                   gm_vars, rs_vars, pl_vars, fit_vars, ab_vars, pf_vars>>

\* print('| '+str(success_count)+'/'+str(model_count)+' models successfully
\* regridded! |')
RegridSummary ==
    /\ rg_pc = "loop"
    /\ rg_i > Len(zip(ctrl_keys, expr_keys))
    /\ rg_printed' = Append(rg_printed,
                            [text |-> "models successfully regridded!",
                             success_count |-> success_count,
                             model_count |-> model_count])
    /\ rg_pc' = "done"
    /\ UNCHANGED <<dset_dict, ctrl_keys, expr_keys, rg_i, ds_regrid_dict,
                   success_count, model_count, regridders,
                   gm_vars, rs_vars, pl_vars, fit_vars, ab_vars, pf_vars>>

NextRegrid == SplitKeys \/ PopThirdLast \/ PopSecond \/ RegridStep \/ RegridSummary

SpecRegrid == InitRegrid /\ [][NextRegrid]_vars

\* ------------------------------------------------------------------------
\* Properties of global_mean
\* ------------------------------------------------------------------------
\* The dataset is a field on a latitude/longitude grid (and time).
LatLonGrid(ds) ==
    /\ get_lat_name(ds) # "RuntimeError"
    /\ DOMAIN ds.dims = {"time", RowDim(ds), "lon"}

\* sum(w*f)/sum(w) over the grid cells of time step t, w = cos(latitude).
WeightedAverageAt(ds, t) ==
    LET w == cos_weight(ds.coords[get_lat_name(ds)])
        cells == {p \in Points(ds.dims) : p["time"] = t}
        wf == [p \in cells |-> RMul(RInt(FieldAt(ds, "tas", p)), w[p[RowDim(ds)]])]
        wp == [p \in cells |-> w[p[RowDim(ds)]]]
    IN RDiv(RSumOver(wf, cells), RSumOver(wp, cells))

ConstantInSpace(ds) == ds.coef.cy = 0 /\ ds.coef.cx = 0 /\ ds.coef.cyx = 0

\* C3: on a latitude/longitude grid the normalised weights have mean 1,
\* global_mean is at every time step the cos(latitude)-weighted average
\* sum(w*f)/sum(w), a spatially constant field keeps its value, and the
\* result is the one of the foundations notebook's weighted mean.
C3_GlobalMeanIsWeightedAverage ==
    (LatLonGrid(gm_ds) /\ "global_mean" \in gm_pc) =>
        LET w == normalize_weight(cos_weight(gm_ds.coords[get_lat_name(gm_ds)]))
        IN /\ RNanMeanOver(w, DOMAIN w) = RInt(1)
           /\ ~IsError(gm_out)
           /\ \A q \in DOMAIN gm_out.data["tas"] :
                 /\ gm_out.data["tas"][q] = WeightedAverageAt(gm_ds, q["time"])
                 /\ ConstantInSpace(gm_ds) =>
                       gm_out.data["tas"][q] =
                           RInt(gm_ds.coef.c0 + gm_ds.coef.ct * q["time"])
           /\ ("foundations" \in gm_pc /\ ~IsError(gm_ref)) =>
                 gm_ref.data = gm_out.data

\* A grid with rows of different weight, a field that varies in space, and
\* both notebooks' global means evaluated.
C3_Witness ==
    /\ LatLonGrid(gm_ds)
    /\ gm_pc = {"global_mean", "foundations"}
    /\ ~IsError(gm_ref)
    /\ gm_ds.coords["lat"].values = <<0, 60>>
    /\ gm_ds.dims["lon"] = 2
    /\ gm_ds.coef.cy = 1 /\ gm_ds.coef.cyx = 1
    /\ gm_ref.data = gm_out.data

\* C4: with a recognised latitude coordinate the result of global_mean has
\* no dimension but time, and its time axis is the input's.
C4_OnlyTimeRemains ==
    ("global_mean" \in gm_pc /\ get_lat_name(gm_ds) # "RuntimeError") =>
        /\ ~IsError(gm_out)
        /\ DOMAIN gm_out.dims = {"time"}
        /\ gm_out.dims["time"] = gm_ds.dims["time"]
        /\ gm_out.coords["time"] = gm_ds.coords["time"]
        /\ \A v \in gm_ds.data_vars :
              DOMAIN gm_out.data[v] = Points([d \in {"time"} |-> gm_ds.dims["time"]])

\* A dataset with a level axis besides time, latitude and longitude.
C4_Witness ==
    /\ "global_mean" \in gm_pc
    /\ ~IsError(gm_out)
    /\ DOMAIN gm_ds.dims = {"time", "latitude", "lon", "plev"}
    /\ DOMAIN gm_out.dims = {"time"}

\* ------------------------------------------------------------------------
\* Properties of the annual resampling
\* ------------------------------------------------------------------------
\* The i-th monthly sample of the series that is resampled.
MonthlySample(ds, v, i) == global_mean(ds).data[v][[d \in {"time"} |-> i]]

\* The unweighted mean of the samples 12k+1 .. 12k+12 (counted from 1).
BlockMean(ds, v, k) ==
    LET S == (12 * k + 1)..(12 * k + 12)
        f == [i \in S |-> MonthlySample(ds, v, i)]
    IN RDiv(RSumOver(f, S), RInt(12))

\* C5: a series of n = 12*y monthly samples is resampled to exactly y
\* points, the k-th the unweighted mean of the k-th block of 12 consecutive
\* samples.
C5_AnnualMeansOfWholeYears ==
    (rs_pc = "done" /\ rs_ds.dims["time"] % 12 = 0) =>
        /\ ~IsError(rs_out)
        /\ DOMAIN rs_out.dims = {"year"}
        /\ rs_out.dims["year"] = rs_ds.dims["time"] \div 12
        /\ \A v \in rs_ds.data_vars :
              /\ DOMAIN rs_out.data[v] = Points(rs_out.dims)
              /\ \A q \in Points(rs_out.dims) :
                    rs_out.data[v][q] = BlockMean(rs_ds, v, q["year"] - 1)

\* A 24-month series that is not linear in time, resampled to 2 points.
C5_Witness ==
    /\ rs_pc = "done"
    /\ rs_ds.dims["time"] = 24
    /\ rs_ds.coef.cs = 1 /\ rs_ds.coef.ct = 1
    /\ ~IsError(rs_out)
    /\ rs_out.dims["year"] = 2
    /\ rs_out.data["tas"][[d \in {"year"} |-> 1]]
         # rs_out.data["tas"][[d \in {"year"} |-> 2]]

\* C6: a series whose length is not a multiple of 12 is resampled without
\* failure to floor(n/12) points, the trailing partial block dropped.
C6_PartialBlockDropped ==
    (rs_pc = "done" /\ rs_ds.dims["time"] % 12 # 0) =>
        /\ ~IsError(rs_out)
        /\ rs_out.dims["year"] = rs_ds.dims["time"] \div 12

\* ------------------------------------------------------------------------
\* Properties of the alignment loop and of the combined frame
\* ------------------------------------------------------------------------
Started == pc \in {"loop", "concat", "done", "error"}

\* A required experiment of the i-th model of the catalogue has no record,
\* or is opened as None.
Unavailable(i) ==
    \E e \in Range(expts(notebook)) :
        \/ catalog[i][e].kind = "absent"
        \/ IsNone(open_dsets(notebook, i, e, catalog[i][e]))

HasEntry(k) == \E j \in SeqIdx(dsets_aligned) : dsets_aligned[j].source_id = k
Reported(k) ==
    \E j \in SeqIdx(printed) :
        printed[j] = [text |-> "Missing experiment for", model |-> k]

\* C1: a model with an unavailable required experiment (absent, or opened
\* as None) never has an entry in dsets_aligned, has been reported as
\* 'Missing experiment for <model>' when the loop has finished, and does
\* not stop the loop.
C1_UnavailableExperimentSkipped ==
    Started =>
        \A i \in DOMAIN catalog : Unavailable(i) =>
            /\ ~HasEntry(source_id_list[i])
            /\ (pc \in {"concat", "done"} => Reported(source_id_list[i]))
            /\ ~(/\ pc = "error" /\ loop_k \in SeqIdx(dsets_)
                 /\ dsets_[loop_k].source_id = source_id_list[i])

AtLabel(o, v, q0, y) ==
    LET P == {i \in SeqIdx(o.coords["year"].values) : o.coords["year"].values[i] = y}
    IN IF P = {} THEN NaN
       ELSE o.data[v][Merge([d \in {"year"} |-> CHOOSE i \in P : TRUE], q0)]

Years(o) == Range(o.coords["year"].values)

Ascending(idx) == \A i \in 1..(Len(idx) - 1) : RLess(idx[i], idx[i + 1])

\* The annual mean of experiment e of the model of the j-th frame, computed
\* from its opened dataset.
AnnOf(j, e) ==
    LET i == CHOOSE h \in SeqIdx(dsets_) :
                 dsets_[h].source_id = dsets_aligned[j].source_id
    IN ann_mean(lookup(dsets_[i].expts, e))

ExptPoint(nb, e) == [d \in {"experiment_id"} |-> IndexOf(expts(nb), e)]

\* Every (experiment, year) of the j-th frame holds the annual mean of that
\* experiment at that year, or NaN when the experiment has no such year.
FrameHoldsAnnualMeans(j) ==
    LET f == dsets_aligned[j].frame
    IN \A e \in Range(expts(notebook)) :
         \E a \in {AnnOf(j, e)} :
            \A v \in variable_ids(notebook) : \A y \in Years(f) :
               AtLabel(f, v, ExptPoint(notebook, e), y)
                 = AtLabel(a, v, [d \in {} |-> 0], y)

\* C7: in the ECS pipeline the year index of a frame is the year index of
\* the forcing experiment (the last of expts); years only piControl has
\* are dropped, years piControl lacks are NaN in its row.
C7_FrameOnForcingYears ==
    notebook = "ecs" =>
        \A j \in SeqIdx(dsets_aligned) :
            LET f == dsets_aligned[j].frame
                last == expts(notebook)[Len(expts(notebook))]
            IN /\ last = co2_option
               /\ f.coords["year"].values = AnnOf(j, last).coords["year"].values
               /\ FrameHoldsAnnualMeans(j)
               /\ \E ys \in {Years(AnnOf(j, "piControl"))} :
                     \A y \in Years(f) \ ys : \A v \in variable_ids(notebook) :
                        IsNaN(AtLabel(f, v, ExptPoint(notebook, "piControl"), y))

\* One model whose piControl run is longer than its forcing run, and one
\* whose forcing run has a year its piControl run lacks.
C7_Witness ==
    /\ notebook = "ecs"
    /\ Len(dsets_aligned) = 2
    /\ Years(AnnOf(1, "piControl")) \ Years(dsets_aligned[1].frame) # {}
    /\ Years(dsets_aligned[2].frame) \ Years(AnnOf(2, "piControl")) # {}
    /\ IsNaN(AtLabel(dsets_aligned[2].frame, "tas",
                     ExptPoint("ecs", "piControl"), RInt(1)))

C9_CombinedOnUnionOfYears ==
    pc = "done" =>
        /\ Years(big_ds) = UNION {Years(dsets_aligned[j].frame) :
                                    j \in SeqIdx(dsets_aligned)}
        /\ Ascending(big_ds.coords["year"].values)
        /\ \A j \in SeqIdx(dsets_aligned) :
              \A e \in Range(expts(notebook)) : \A v \in variable_ids(notebook) :
                 \A y \in Years(big_ds) :
                    LET q == Merge([d \in {"source_id"} |-> j], ExptPoint(notebook, e))
                    IN AtLabel(big_ds, v, q, y)
                         = AtLabel(dsets_aligned[j].frame, v, ExptPoint(notebook, e), y)

\* Two models covering the years 0 and 0..1: the combined frame spans 0..1
\* and the first model is missing on year 1.
C9_Witness ==
    /\ pc = "done"
    /\ notebook = "ecs"
    /\ Len(dsets_aligned) = 2
    /\ dsets_aligned[1].frame.coords["year"].values = <<RInt(0)>>
    /\ dsets_aligned[2].frame.coords["year"].values = <<RInt(0), RInt(1)>>
    /\ big_ds.coords["year"].values = <<RInt(0), RInt(1)>>
    /\ IsNaN(AtLabel(big_ds, "tas",
                     Merge([d \in {"source_id"} |-> 1], ExptPoint("ecs", co2_option)),
                     RInt(1)))
    /\ ~IsNaN(AtLabel(big_ds, "tas",
                      Merge([d \in {"source_id"} |-> 2], ExptPoint("ecs", co2_option)),
                      RInt(1)))

\* ------------------------------------------------------------------------
\* Properties of calc_ecs
\* ------------------------------------------------------------------------
NoneMissing(s) == \A i \in SeqIdx(s) : ~IsNaN(s[i])

\* C10: for paired sequences without missing values that lie exactly on a
\* line imbalance = a*temperature + b with a # 0, with at least two distinct
\* temperatures, calc_ecs returns -b/a.
C10_ExactLineGivesRoot ==
    (/\ fit_pc = "done"
     /\ NoneMissing(fit_tas) /\ NoneMissing(fit_imb)
     /\ \E i, j \in SeqIdx(fit_tas) : fit_tas[i] # fit_tas[j]) =>
        LET ij == CHOOSE q \in SeqIdx(fit_tas) \X SeqIdx(fit_tas) :
                      fit_tas[q[1]] # fit_tas[q[2]]
            a == RDiv(RSub(fit_imb[ij[2]], fit_imb[ij[1]]),
                      RSub(fit_tas[ij[2]], fit_tas[ij[1]]))
            b == RSub(fit_imb[ij[1]], RMul(a, fit_tas[ij[1]]))
        IN (/\ a # RInt(0)
            /\ \A k \in SeqIdx(fit_tas) :
                  fit_imb[k] = RAdd(RMul(a, fit_tas[k]), b)) =>
               fit_out = DataArray(RDiv(RSub(RInt(0), b), a))

\* imbalance = -2*T + 8 at T = 0, 1, 2 gives 4.
C10_Witness ==
    /\ fit_pc = "done"
    /\ fit_tas = <<RInt(0), RInt(1), RInt(2)>>
    /\ fit_imb = <<RInt(8), RInt(6), RInt(4)>>
    /\ fit_out = DataArray(RInt(4))

\* The pairs (tas[i], imb[i]) of the years where neither is missing.
PairedIdx(tas, imb) == {i \in SeqIdx(tas) : ~IsNaN(tas[i]) /\ ~IsNaN(imb[i])}
PairedOf(s, tas, imb) ==
    LET idx == SortSet({RInt(i) : i \in PairedIdx(tas, imb)})
    IN [j \in SeqIdx(idx) |-> s[idx[j][1]]]

\* C11: the fit runs on the two sequences left after removing, from both,
\* every year where the temperature or the imbalance is missing: equally
\* long, the i-th elements of the same year.
C11_PairedRemoval ==
    /\ plot_pc = "done" =>
          /\ plot_x = PairedOf(fit_tas, fit_tas, fit_imb)
          /\ plot_y = PairedOf(fit_imb, fit_tas, fit_imb)
    /\ fit_pc = "done" =>
          fit_out \in calc_ecs(PairedOf(fit_tas, fit_tas, fit_imb),
                               PairedOf(fit_imb, fit_tas, fit_imb))

\* C12: calc_ecs fails with an error, and returns no number, when fewer than
\* two valid paired points remain, and when all the paired temperatures are
\* identical.
C12_FailsOnInsufficientOrDegenerate ==
    fit_pc = "done" =>
        LET xs == PairedOf(fit_tas, fit_tas, fit_imb)
        IN (Len(xs) < 2 \/ \A i, j \in SeqIdx(xs) : xs[i] = xs[j]) =>
              IsError(fit_out)

\* ------------------------------------------------------------------------
\* Properties of the pipeline: failures of one model
\* ------------------------------------------------------------------------
\* The i-th model of the catalogue is opened, and the per-variable stores of
\* one of its experiments do not merge.
MergeConflict(i) ==
    /\ i \in col_search(notebook, catalog)
    /\ \E e \in Range(expts(notebook)) : catalog[i][e].kind = "conflict"

\* All the runs of the i-th model are opened and cover whole years.
WholeYears(i) ==
    \A e \in Range(expts(notebook)) :
        catalog[i][e].kind = "ok" /\ catalog[i][e].nt % Window = 0

PosOf(k) == CHOOSE h \in SeqIdx(dsets_) : dsets_[h].source_id = k

InBigDs(k) == k \in Range(big_ds.coords["source_id"].values)

\* C13: a model one of whose experiments does not merge is opened with None
\* for that experiment, never gets a frame nor an entry of big_ds, is
\* reported once the loop has passed it and does not stop the loop; the
\* models without a failure are aligned and concatenated.
C13_MergeConflictSkipped ==
    Started =>
        \A i \in DOMAIN catalog : MergeConflict(i) =>
            LET k == source_id_list[i] IN
            /\ \E e \in Range(expts(notebook)) :
                  IsNone(lookup(dsets_[PosOf(k)].expts, e))
            /\ ~HasEntry(k)
            /\ (loop_k > PosOf(k) => Reported(k))
            /\ ~(pc = "error" /\ loop_k = PosOf(k))
            /\ (pc = "done" => ~InBigDs(k))
            /\ \A j \in DOMAIN catalog : WholeYears(j) =>
                  /\ (loop_k > PosOf(source_id_list[j]) => HasEntry(source_id_list[j]))
                  /\ (pc = "done" => InBigDs(source_id_list[j]))

\* The first model does not merge, the second is aligned and is the one
\* entry of big_ds.
C13_Witness ==
    /\ pc = "done"
    /\ MergeConflict(1)
    /\ WholeYears(2)
    /\ Len(printed) = 1
    /\ Reported(source_id_list[1])
    /\ big_ds.coords["source_id"].values = <<source_id_list[2]>>

\* The i-th model of the catalogue is opened with all its datasets, and one
\* of them has neither a 'lat' nor a 'latitude' coordinate.
NoLatitude(i) ==
    /\ i \in col_search(notebook, catalog)
    /\ \A e \in Range(expts(notebook)) : catalog[i][e].kind # "conflict"
    /\ \E e \in Range(expts(notebook)) : catalog[i][e].kind = "nolat"

\* C14: the reduction of a dataset without 'lat' and 'latitude' fails; the
\* failure is that of its model alone: the model gets no frame, is recorded
\* as skipped once the loop has passed it, and the loop goes on.
C14_MissingLatitudeSkipsModel ==
    (Started /\ raised # "AssertionError") =>
        \A i \in DOMAIN catalog : NoLatitude(i) =>
            LET k == source_id_list[i] IN
            /\ \E e \in Range(expts(notebook)) :
                  IsError(global_mean(lookup(dsets_[PosOf(k)].expts, e)))
            /\ ~HasEntry(k)
            /\ (loop_k > PosOf(k) =>
                  \E j \in SeqIdx(printed) : printed[j].model = k)
            /\ ~(pc = "error" /\ loop_k = PosOf(k))

\* ------------------------------------------------------------------------
\* Properties of the pipeline: labels and order of the combined frame
\* ------------------------------------------------------------------------
\* The annual means of experiment e of the i-th model of the catalogue.
AnnOfCatalog(i, e) ==
    LET ds == open_dsets(notebook, i, e, catalog[i][e])
    IN ann_mean(assign_coord(ds, "year", year_coord(notebook, ds)))

\* C15: the entry (source_id m, experiment_id e) of big_ds holds the series
\* of model m's dataset of experiment e; the models are in the key order of
\* dsets_aligned, which is that of the catalogue, the experiments in the
\* order of expts: big_ds is determined by the catalogue, whatever the
\* order in which the tasks complete.  (On the years of the model's frame;
\* the other years of big_ds are NaN for the model.)
C15_LabelsAndOrderDeterministic ==
    pc = "done" =>
        LET ids == SelectSeq(source_id_list, HasEntry)
        IN /\ big_ds.coords["source_id"].values = ids
           /\ ids = [j \in SeqIdx(dsets_aligned) |-> dsets_aligned[j].source_id]
           /\ big_ds.coords["experiment_id"].values = expts(notebook)
           /\ \A j \in SeqIdx(ids) : \A e \in Range(expts(notebook)) :
                 \E a \in {AnnOfCatalog(IndexOf(source_id_list, ids[j]), e)} :
                    \A v \in variable_ids(notebook) : \A y \in Years(big_ds) :
                       AtLabel(big_ds, v,
                               Merge([d \in {"source_id"} |-> j],
                                     ExptPoint(notebook, e)), y)
                         = IF y \in Years(dsets_aligned[j].frame)
                           THEN AtLabel(a, v, [d \in {} |-> 0], y)
                           ELSE NaN

\* Two models of the ECS notebook, whose mappings hold the experiments in
\* the order abrupt-2xCO2, piControl: four different series, each under its
\* own labels.
C15_Witness ==
    /\ pc = "done"
    /\ notebook = "ecs"
    /\ big_ds.coords["source_id"].values = source_id_list
    /\ dsets_[1].expts[1].experiment_id = co2_option
    /\ big_ds.coords["experiment_id"].values = <<"piControl", co2_option>>
    /\ \A j1, j2 \in 1..2 : \A e1, e2 \in 1..2 :
          <<j1, e1>> # <<j2, e2>> =>
             big_ds.data["tas"][[source_id |-> j1, experiment_id |-> e1, year |-> 1]]
               # big_ds.data["tas"][[source_id |-> j2, experiment_id |-> e2, year |-> 1]]

\* ------------------------------------------------------------------------
\* Properties of the regridding loop
\* ------------------------------------------------------------------------
\* The number of (control, experiment) key pairs.
NPairs == IF Len(ctrl_keys) < Len(expr_keys) THEN Len(ctrl_keys) ELSE Len(expr_keys)

\* get_tcr or regrid raises for the h-th pair: a dataset without a time
\* dimension, coordinates xESMF rejects, or no hfds variable.
PairFails(h) ==
    LET c == dset_dict[ctrl_keys[h]]
        e == dset_dict[expr_keys[h]]
    IN \/ c.nt = 1 \/ e.nt = 1
       \/ ~e.coords_ok
       \/ "hfds" \notin (c.data_vars \cap e.data_vars)

InLoop == rg_pc \in {"loop", "done"} /\ rg_i >= 1

RegridEntry(model) ==
    ds_regrid_dict[CHOOSE j \in SeqIdx(ds_regrid_dict) :
                       ds_regrid_dict[j].model = model].ds

\* C21: for every pair regridded, get_tcr has averaged both experiments
\* over the same 240 monthly samples, the 20 years centred on year 70, and
\* the entry of the model is the difference of the two window means.
C21_TcrWindowOf240Samples ==
    InLoop =>
        \A h \in 1..model_count : ~PairFails(h) =>
            LET c == dset_dict[ctrl_keys[h]]
                e == dset_dict[expr_keys[h]]
            IN /\ isel_time(e, 12 * 59, 12 * 80) = 12 * 60 .. 12 * 80 - 1
               /\ isel_time(c, 12 * 59, 12 * 80) = isel_time(e, 12 * 59, 12 * 80)
               /\ Cardinality(isel_time(e, 12 * 59, 12 * 80)) = 240
               /\ RegridEntry(model_of(ctrl_keys[h])).value
                     = RSub(window_mean(e), window_mean(c))

\* C17: over the regrid calls made so far, at most one xe.Regridder has been
\* constructed for each distinct source-grid shape.
C17_RegridderBuiltOncePerShape ==
    \A a, b \in SeqIdx(regridders) :
        regridders[a].shape_in = regridders[b].shape_in => a = b

\* The i-th model of the catalogue is opened and has two records for one
\* variable of one experiment.
HasDuplicate(i) ==
    /\ i \in col_search(notebook, catalog)
    /\ \E e \in Range(expts(notebook)) : catalog[i][e].kind = "duplicate"

\* C18: duplicate records do not crash the pipeline; one of the duplicates
\* is used and the model is processed as usual: with whole-year runs
\* otherwise, it is aligned.
C18_DuplicatesTolerated ==
    Started =>
        \A i \in DOMAIN catalog : HasDuplicate(i) =>
            /\ ~(pc = "error" /\ raised = "AssertionError")
            /\ (/\ pc \in {"concat", "done"}
                /\ \A e \in Range(expts(notebook)) :
                      catalog[i][e].kind \in {"ok", "duplicate"}
                        /\ catalog[i][e].nt % Window = 0)
                  => HasEntry(source_id_list[i])

\* ------------------------------------------------------------------------
\* The sensitivity cell (ECS notebook): the years handed to calc_ecs
\* ------------------------------------------------------------------------
MaxAnomYears == 151    \* ds_anom has up to MaxAnomYears years, 0, 1, ...

first_150_years_to_150 == [start |-> 0, stop |-> 150]

\* first_150_years = slice(0, 149)
first_150_years == [start |-> 0, stop |-> 149]

\* The responses of the imbalance anomaly to the temperature anomaly:
\* imbalance = p - q * tas.
Responses == {[p |-> p, q |-> q] : p \in {4, 8}, q \in {1, 2}}

\* The anomalies of the forcing experiment of one model on the years
\* 0 .. nyears-1: tas cycles through 0 .. period-1, the imbalance responds
\* by `early' before year 100 and by `late' from year 100 on.
AnomSeries(nyears, period, early, late) ==
    [i \in 1..nyears |->
        LET y == i - 1
            r == IF y < 100 THEN early ELSE late
        IN [year |-> y,
            tas |-> RInt(y % period),
            imbalance |-> RInt(r.p - r.q * (y % period))]]

\* ds.sel(year=slice(start, stop)): selection by label, both ends included.
sel_year(ds, sl) ==
    LET InSlice(row) == sl.start <= row.year /\ row.year <= sl.stop
    IN SelectSeq(ds, InSlice)

\* The core arrays apply_ufunc hands to calc_ecs along 'year'.
core_dim(ds, name) == [i \in SeqIdx(ds) |-> ds[i][name]]

InitAbrupt ==
    /\ \E nyears \in {MaxAnomYears - 50, MaxAnomYears - 1, MaxAnomYears} :
       \E period \in {2, 3} : \E early \in Responses, late \in Responses :
          ds_anom = AnomSeries(nyears, period, early, late)
    /\ ds_abrupt = Unset
    /\ ab_pc = "select"
    /\ UfuncIdle
    /\ MeanIdle
    /\ AnnIdle
    /\ PipelineIdle
    /\ FitIdle
    /\ RegridIdle
    /\ PrecipIdle

\* ds_abrupt = ds_anom.sel(year=first_150_years, experiment_id=co2_option)
SelectAbrupt ==
    /\ ab_pc = "select"
    /\ ds_abrupt' = [rows |-> sel_year(ds_anom, first_150_years)]
    /\ ab_pc' = "apply"
    /\ UNCHANGED <<ds_anom, uf_in, uf_out, uf_pc, gm_vars, rs_vars, pl_vars, fit_vars,
                   rg_vars, pf_vars>>

\* ds_abrupt['ecs'] = xr.apply_ufunc(calc_ecs, ds_abrupt.tas,
\*                                   ds_abrupt.imbalance, ...)
ApplyCalcEcs ==
    /\ ab_pc = "apply"
    /\ \E r \in calc_ecs(core_dim(ds_abrupt.rows, "tas"),
                          core_dim(ds_abrupt.rows, "imbalance")) :
          IF IsError(r)
          THEN ab_pc' = "error" /\ ds_abrupt' = r
          ELSE ab_pc' = "done" /\ ds_abrupt' = [rows |-> ds_abrupt.rows, ecs |-> r]
    /\ UNCHANGED <<ds_anom, uf_in, uf_out, uf_pc, gm_vars, rs_vars, pl_vars, fit_vars,
                   rg_vars, pf_vars>>

NextAbrupt == SelectAbrupt \/ ApplyCalcEcs

SpecAbrupt == InitAbrupt /\ [][NextAbrupt]_vars

\* ------------------------------------------------------------------------
\* The sensitivity cell over all the models: apply_ufunc(calc_ecs, ...,
\* vectorize=True)
\* ------------------------------------------------------------------------
MaxUfYears == 3    \* ds_abrupt has 1..MaxUfYears years

\* The annual anomalies of one year of one model.
UfPoints == [tas : {RInt(0), RInt(1)}, imbalance : {RInt(4), RInt(6)}]

\* A series of n years on the L years of the combined frame: the years the
\* model does not have are NaN for every variable.
PadTo(points, L) ==
    [tas |-> [y \in 1..L |-> IF y <= Len(points) THEN points[y].tas ELSE NaN],
     imbalance |-> [y \in 1..L |->
                      IF y <= Len(points) THEN points[y].imbalance ELSE NaN]]

PaddedSeries(L) == {PadTo(points, L) : points \in UNION {[1..n -> UfPoints] : n \in 1..L}}

\* The outcomes of np.vectorize(calc_ecs) over the models, in their order:
\* the values of all the models, or the first exception raised.
RECURSIVE vectorize_calc_ecs(_)
vectorize_calc_ecs(in) ==
    IF in = <<>> THEN {[values |-> <<>>]}
    ELSE UNION {IF IsError(h) THEN {h}
                ELSE {IF IsError(t) THEN t ELSE [values |-> <<h>> \o t.values] :
                         t \in vectorize_calc_ecs(Tail(in))} :
                   h \in calc_ecs(in[1].tas, in[1].imbalance)}

InitUfunc ==
    /\ \E L \in 1..MaxUfYears : \E a, b \in PaddedSeries(L) :
          /\ ~IsNaN(a.tas[L]) \/ ~IsNaN(b.tas[L])
          /\ uf_in = <<a, b>>
    /\ uf_out = Unset
    /\ uf_pc = "apply"
    /\ ds_anom = Unset /\ ds_abrupt = Unset /\ ab_pc = "idle"
    /\ MeanIdle
    /\ AnnIdle
    /\ PipelineIdle
    /\ FitIdle
    /\ RegridIdle
    /\ PrecipIdle

\* ds_abrupt['ecs'] = xr.apply_ufunc(calc_ecs, ds_abrupt.tas,
\*     ds_abrupt.imbalance, vectorize=True, input_core_dims=[['year'], ['year']])
ApplyUfunc ==
    /\ uf_pc = "apply"
    /\ \E r \in vectorize_calc_ecs(uf_in) :
          /\ uf_out' = r
          /\ uf_pc' = IF IsError(r) THEN "error" ELSE "done"
    /\ UNCHANGED <<uf_in, ds_anom, ds_abrupt, ab_pc, gm_vars, rs_vars, pl_vars,
                   fit_vars, rg_vars, pf_vars>>

\* ds_abrupt.ecs.plot.hist()
HistOfEcs ==
    /\ uf_pc = "done"
    /\ uf_pc' = "plotted"
    /\ UNCHANGED <<uf_in, uf_out, ds_anom, ds_abrupt, ab_pc, gm_vars, rs_vars,
                   pl_vars, fit_vars, rg_vars, pf_vars>>

NextUfunc == ApplyUfunc \/ HistOfEcs

SpecUfunc == InitUfunc /\ [][NextUfunc]_vars

\* The series of model m has a missing value.
HasMissing(m) ==
    \E y \in SeqIdx(uf_in[m].tas) : IsNaN(uf_in[m].tas[y]) \/ IsNaN(uf_in[m].imbalance[y])

\* The series of model m has two distinct temperatures.
Fittable(m) == \E y1, y2 \in SeqIdx(uf_in[m].tas) : uf_in[m].tas[y1] # uf_in[m].tas[y2]

\* C24: when a model has missing values in the fit window and the other
\* models have none and can be fitted, the computation raises nothing; the
\* value of the model with missing values is missing (NaN), not a number,
\* and the values of the other models are those of their fits.
C24_MissingWindowYieldsMissingEcsOnly ==
    ((\E m \in SeqIdx(uf_in) : HasMissing(m))
       /\ (\A m \in SeqIdx(uf_in) : ~HasMissing(m) => Fittable(m))
       /\ uf_pc # "apply")
    => /\ uf_pc # "error"
       /\ \A m \in SeqIdx(uf_in) :
             IF HasMissing(m) THEN IsNaN(uf_out.values[m].data)
             ELSE /\ ~IsNaN(uf_out.values[m].data)
                  /\ uf_out.values[m] \in calc_ecs(uf_in[m].tas, uf_in[m].imbalance)

\* ------------------------------------------------------------------------
\* The precipitation notebook (notebooks/example-workflows/precip-freq.ipynb):
\* precip_hist and precip_hist_for_expts
\* ------------------------------------------------------------------------
MaxPrTimes == 1    \* a precipitation dataset has 1..MaxPrTimes samples in time

\* The rates along lon at one time, each given by the bin it falls in.
PrRows == {<<0, 0>>, <<0, 1>>}

\* The datasets load_pr_data(...).sel(time=...) can give: pr in kg m-2 s-1
\* on (time, lon), or pr in another unit.
PrDatasets ==
    {[units |-> "kg m-2 s-1", pr |-> f] :
        f \in UNION {[1..nt -> PrRows] : nt \in 1..MaxPrTimes}}
    \cup {[units |-> "mm/day", pr |-> <<<<0, 0>>>>]}

\* experiment_ids = ['historical', 'ssp585']
experiment_ids == <<"historical", "ssp585">>

\* precip_hist(ds): per bin, 100 * (the mean over time of the number of
\* cells along lon in the bin) / ds.dims['lon'], per log bin spacing.
precip_hist(ds) ==
    IF ds.units # "kg m-2 s-1" THEN Raised("AssertionError")
    ELSE LET nt == Len(ds.pr)
             nlon == Len(ds.pr[1])
             count(b) == Cardinality({c \in (1..nt) \X (1..nlon) :
                                        ds.pr[c[1]][c[2]] = b})
         IN [units |-> "%/dln(r)",
             hist |-> [b \in 0..1 |-> Rat(100 * count(b), nt * nlon)]]

\* precip_hist_for_expts(dsets, experiment_ids), with the notebook-level
\* variables ds_hist and ds_ssp its body reads as g_hist and g_ssp.
precip_hist_for_expts(dsets, expt_ids, g_hist, g_ssp) ==
    IF g_hist = Unset \/ g_ssp = Unset THEN Raised("NameError")
    ELSE LET pr_hists == [i \in 1..2 |-> precip_hist(<<g_hist, g_ssp>>[i])]
         IN IF IsError(pr_hists[1]) THEN pr_hists[1]
            ELSE IF IsError(pr_hists[2]) THEN pr_hists[2]
            ELSE IF Len(expt_ids) # 2 THEN Raised("ValueError")
            ELSE [experiment_id |-> expt_ids, hists |-> pr_hists]

InitPrecip ==
    /\ ds_hist \in PrDatasets \cup {Unset}
    /\ ds_ssp \in PrDatasets \cup {Unset}
    /\ pf_dsets \in [1..2 -> PrDatasets]
    /\ pf_out = Unset
    /\ pf_pc = "call"
    /\ MeanIdle
    /\ AnnIdle
    /\ PipelineIdle
    /\ FitIdle
    /\ RegridIdle
    /\ AbruptIdle

\* A call precip_hist_for_expts(dsets, experiment_ids) with the
\* notebook-level variables as they are.
PrecipCall ==
    /\ pf_pc = "call"
    /\ \E r \in {precip_hist_for_expts(pf_dsets, experiment_ids, ds_hist, ds_ssp)} :
          /\ pf_out' = r
          /\ pf_pc' = IF IsError(r) THEN "error" ELSE "done"
    /\ UNCHANGED <<ds_hist, ds_ssp, pf_dsets, gm_vars, rs_vars, pl_vars, fit_vars,
                   rg_vars, ab_vars>>

\* One iteration of the results loop: ds_hist and ds_ssp are loaded, then
\* pr_hist = precip_hist_for_expts([ds_hist, ds_ssp], experiment_ids)
ResultsStep ==
    /\ pf_pc = "call"
    /\ \E h \in PrDatasets, f \in PrDatasets :
          /\ ds_hist' = h
          /\ ds_ssp' = f
          /\ pf_dsets' = <<h, f>>
          /\ \E r \in {precip_hist_for_expts(<<h, f>>, experiment_ids, h, f)} :
                /\ pf_out' = r
                /\ pf_pc' = IF IsError(r) THEN "error" ELSE "done"
    /\ UNCHANGED <<gm_vars, rs_vars, pl_vars, fit_vars, rg_vars, ab_vars>>

NextPrecip == PrecipCall \/ ResultsStep

SpecPrecip == InitPrecip /\ [][NextPrecip]_vars

\* What the arguments alone determine: the i-th histogram is that of
\* dsets[i].
HistsOfArguments(dsets, expt_ids) ==
    LET pr_hists == [i \in SeqIdx(dsets) |-> precip_hist(dsets[i])]
    IN IF \E i \in SeqIdx(dsets) : IsError(pr_hists[i])
       THEN Raised("AssertionError")
       ELSE [experiment_id |-> expt_ids, hists |-> pr_hists]

\* C27: the result of precip_hist_for_expts(dsets, experiment_ids) is
\* determined by its arguments, whatever ds_hist and ds_ssp are: the i-th
\* histogram is that of dsets[i].
C27_ResultDeterminedByArguments ==
    pf_pc \in {"done", "error"} => pf_out = HistsOfArguments(pf_dsets, experiment_ids)

\* The points of ds_anom of the years 100 to 150.
Years100To150 == sel_year(ds_anom, [start |-> 100, stop |-> 150])

\* C20: the ECS estimate is that of the line fitted through the points of
\* the years 100 to 150 of the forcing experiment, and only those.
C20_FitsYears100To150 ==
    ab_pc = "done" =>
        ds_abrupt.ecs \in calc_ecs(core_dim(Years100To150, "tas"),
                                   core_dim(Years100To150, "imbalance"))

\* ------------------------------------------------------------------------
\* Properties of the pipeline: the opened datasets
\* ------------------------------------------------------------------------
\* C19: once the alignment loop has passed a model, processed or skipped,
\* each dataset of the model in dsets_ is the dataset that was opened from
\* the catalogue: same coordinates, same variables.
C19_OpenedDatasetsUnmodified ==
    pc \in {"loop", "concat", "done"} =>
        \A h \in SeqIdx(dsets_) : h < loop_k =>
            \A i \in DOMAIN catalog : source_id_list[i] = dsets_[h].source_id =>
                \A j \in SeqIdx(dsets_[h].expts) :
                    LET e == dsets_[h].expts[j].experiment_id
                    IN dsets_[h].expts[j].ds
                         = open_dsets(notebook, i, e, catalog[i][e])

\* ------------------------------------------------------------------------
\* Properties of the pipeline: the year coordinate
\* ------------------------------------------------------------------------
\* The dataset carries the year counter of the ECS notebook: at every sample
\* the calendar year minus the calendar year of the first sample.
Rebased(ds) ==
    /\ "year" \in DOMAIN ds.coords
    /\ LET t == ds.coords["time"].values
           y == ds.coords["year"].values
       IN /\ Len(y) = Len(t)
          /\ y[1] = 0
          /\ \A i \in SeqIdx(t) : y[i] = t[i][1] - t[1][1]

\* The h-th model of dsets_ has None for one of its experiments.
SkippedModel(h) == \E j \in SeqIdx(dsets_[h].expts) : IsNone(dsets_[h].expts[j].ds)

\* C22 (as stated): in the ECS pipeline every opened dataset of a model the
\* loop has passed carries the year counter.
C22_EveryOpenedDatasetRebased ==
    (notebook = "ecs" /\ pc \in {"loop", "concat", "done"}) =>
        \A h \in SeqIdx(dsets_) : h < loop_k =>
            \A j \in SeqIdx(dsets_[h].expts) :
                ~IsNone(dsets_[h].expts[j].ds) => Rebased(dsets_[h].expts[j].ds)

\* C22 (amended): in the ECS pipeline every dataset of a model the loop has
\* processed, that is passed without skipping it, carries the year counter:
\* calendar year minus calendar year of the first sample, 0 at the first
\* sample; the opened datasets of a skipped model are left without it.
C22_ProcessedDatasetsRebased ==
    (notebook = "ecs" /\ pc \in {"loop", "concat", "done"}) =>
        \A h \in SeqIdx(dsets_) : h < loop_k =>
            \A j \in SeqIdx(dsets_[h].expts) :
                LET ds == dsets_[h].expts[j].ds
                IN IF SkippedModel(h)
                   THEN IsNone(ds) \/ "year" \notin DOMAIN ds.coords
                   ELSE Rebased(ds)

\* A processed model whose two experiments start in different calendar
\* years: both year counters start at 0.
C22_Witness ==
    /\ notebook = "ecs" /\ pc \in {"loop", "concat", "done"}
    /\ \E h \in SeqIdx(dsets_) :
          /\ h < loop_k
          /\ ~SkippedModel(h)
          /\ \E j1, j2 \in SeqIdx(dsets_[h].expts) :
                LET d1 == dsets_[h].expts[j1].ds
                    d2 == dsets_[h].expts[j2].ds
                IN /\ d1.coords["time"].values[1][1] # d2.coords["time"].values[1][1]
                   /\ d1.coords["year"].values[1] = 0
                   /\ d2.coords["year"].values[1] = 0
                   /\ Rebased(d1) /\ Rebased(d2)

FrameVal(j, v, e, y) ==
    LET f == dsets_aligned[j].frame
        at(w) == AtLabel(f, w, ExptPoint("ecs", e), y)
    IN IF v = "imbalance" THEN RSub(RSub(at("rsdt"), at("rsut")), at("rlut"))
       ELSE at(v)

\* The piControl mean of v of the j-th aligned model over the non-missing
\* years of its own aligned frame.
Baseline(j, v) ==
    LET ys == dsets_aligned[j].frame.coords["year"].values
    IN RNanMeanOver([i \in SeqIdx(ys) |-> FrameVal(j, v, "piControl", ys[i])],
                    SeqIdx(ys))

\* C25: for every model, the anomaly of tas and of imbalance at each
\* (experiment, year) is the value minus the model's own piControl mean
\* over the non-missing years of its aligned frame, and the piControl
\* anomalies of the model average to zero over those years (when there are
\* such years).
C25_AnomalyAgainstOwnControlMean ==
    pc = "derived" =>
        \A j \in SeqIdx(dsets_aligned) : \A v \in {"tas", "imbalance"} :
            \E base \in {Baseline(j, v)} :
                /\ ds_mean.data[v][[d \in {"source_id"} |-> j]] = base
                /\ \A e \in Range(expts("ecs")) :
                   \A y \in SeqIdx(big_ds.coords["year"].values) :
                      ds_anom_frame.data[v][[source_id |-> j,
                                             experiment_id |-> IndexOf(expts("ecs"), e),
                                             year |-> y]]
                        = RSub(FrameVal(j, v, e, big_ds.coords["year"].values[y]), base)
                /\ ~IsNaN(base) =>
                      RNanMeanOver(
                          [y \in SeqIdx(big_ds.coords["year"].values) |->
                              ds_anom_frame.data[v][[source_id |-> j,
                                                     experiment_id |-> 1,
                                                     year |-> y]]],
                          SeqIdx(big_ds.coords["year"].values)) = RInt(0)

\* Two models with different baselines, one of them with a piControl run
\* shorter than its forcing run, and a forcing anomaly that is not zero.
C25_Witness ==
    /\ pc = "derived"
    /\ Len(dsets_aligned) = 2
    /\ ~IsNaN(Baseline(1, "tas")) /\ ~IsNaN(Baseline(2, "tas"))
    /\ Baseline(1, "tas") # Baseline(2, "tas")
    /\ Baseline(1, "imbalance") # Baseline(2, "imbalance")
    /\ \E j \in 1..2 : \E y \in Years(dsets_aligned[j].frame) :
          IsNaN(FrameVal(j, "tas", "piControl", y))
    /\ \E y \in SeqIdx(big_ds.coords["year"].values) :
          LET a == ds_anom_frame.data["tas"][[source_id |-> 1, experiment_id |-> 2,
                                             year |-> y]]
          IN ~IsNaN(a) /\ a # RInt(0)

\* ------------------------------------------------------------------------
\* Properties of the key lists
\* ------------------------------------------------------------------------
\* The models that have a key in dset_dict.
KeyModels == {model_of(k) : k \in DOMAIN dset_dict}

\* Every model has exactly one piControl key and one 1pctCO2 key.
OnePairPerModel ==
    \A m \in KeyModels : \A e \in {"piControl", "1pctCO2"} :
        Cardinality({k \in DOMAIN dset_dict : model_of(k) = m /\ k[4] = e}) = 1

SameNameRegridded ==
    \E h1, h2 \in 1..model_count :
        /\ h1 < h2
        /\ ~PairFails(h1) /\ ~PairFails(h2)
        /\ model_of(ctrl_keys[h1]) = model_of(ctrl_keys[h2])

\* C28: after every iteration, success_count is the number of entries of
\* ds_regrid_dict exactly when no two of the pairs regridded so far have
\* the same model name (with such pairs it is larger); under that
\* condition the count printed after the loop is the number of entries,
\* one per model regridded.
C28_SuccessCountIsDictSize ==
    InLoop =>
        /\ (~SameNameRegridded <=> success_count = Len(ds_regrid_dict))
        /\ (SameNameRegridded => success_count > Len(ds_regrid_dict))
        /\ ~SameNameRegridded =>
              /\ \A h \in 1..model_count : ~PairFails(h) =>
                    \E j \in SeqIdx(ds_regrid_dict) :
                        ds_regrid_dict[j].model = model_of(ctrl_keys[h])
              /\ rg_pc = "done" =>
                    rg_printed[Len(rg_printed)].success_count = Len(ds_regrid_dict)

\* The loop is over, the model names are distinct, one model was regridded
\* and one failed.
C28_Witness ==
    /\ rg_pc = "done"
    /\ ~SameNameRegridded
    /\ \A h1, h2 \in SeqIdx(ctrl_keys) :
          model_of(ctrl_keys[h1]) = model_of(ctrl_keys[h2]) => h1 = h2
    /\ model_count = 2
    /\ success_count = 1
    /\ Len(ds_regrid_dict) = 1
    /\ rg_printed[Len(rg_printed)].success_count = 1

\* ------------------------------------------------------------------------
\* Properties of the pipeline: missing values of tas and imbalance
\* ------------------------------------------------------------------------
\* The anomalies of v of experiment e of the j-th model along the years of
\* the combined frame.
AnomSeriesOf(j, v, e) ==
    [y \in SeqIdx(ds_anom_frame.coords["year"].values) |->
        ds_anom_frame.data[v][[source_id |-> j,
                               experiment_id |-> IndexOf(expts("ecs"), e),
                               year |-> y]]]

\* C29: in the combined frame of anomalies, at every (model, experiment,
\* year) tas is missing if and only if imbalance is; removing the missing
\* values from tas and from imbalance separately leaves the sequences of
\* the years where neither is missing: equally long and paired by year.
C29_MissingTogether ==
    pc = "derived" =>
        \A j \in 1..ds_anom_frame.dims["source_id"] : \A e \in Range(expts("ecs")) :
            \E tas \in {AnomSeriesOf(j, "tas", e)} :
            \E imb \in {AnomSeriesOf(j, "imbalance", e)} :
                /\ \A y \in SeqIdx(tas) : IsNaN(tas[y]) <=> IsNaN(imb[y])
                /\ drop_nan(tas) = PairedOf(tas, tas, imb)
                /\ drop_nan(imb) = PairedOf(imb, tas, imb)
                /\ Len(drop_nan(tas)) = Len(drop_nan(imb))

\* A model padded by the concatenation across models: its forcing series
\* has a year where both tas and imbalance are missing, and a year where
\* neither is.
C29_Witness ==
    /\ pc = "derived"
    /\ ds_anom_frame.dims["source_id"] = 2
    /\ \E j \in 1..2 :
          LET tas == AnomSeriesOf(j, "tas", co2_option)
              imb == AnomSeriesOf(j, "imbalance", co2_option)
          IN /\ Len(tas) = 2
             /\ ~IsNaN(tas[1]) /\ ~IsNaN(imb[1])
             /\ IsNaN(tas[2]) /\ IsNaN(imb[2])
             /\ Len(drop_nan(tas)) = 1 /\ Len(drop_nan(imb)) = 1

\* ------------------------------------------------------------------------
\* Properties of the pipeline: the annual points
\* ------------------------------------------------------------------------
\* C30: for every series the pipeline aligns, whatever month it starts in,
\* every annual point comes from 12 monthly samples of one single calendar
\* year, and its year label is the integer year counter of those samples.
C30_AnnualPointsOfSingleYears ==
    \A j \in SeqIdx(dsets_aligned) : \A e \in Range(expts(notebook)) :
        LET ds == lookup(dsets_[PosOf(dsets_aligned[j].source_id)].expts, e)
            yc == ds.coords["year"].values
        IN \E a \in {AnnOf(j, e)} :
              \A k \in SeqIdx(a.coords["year"].values) :
                 LET first == Window * (k - 1) + 1
                 IN /\ \A i \in first..(first + Window - 1) : yc[i] = yc[first]
                    /\ a.coords["year"].values[k] = RInt(yc[first])

====
